---- MODULE Spec2Model ----
(***************************************************************************)
(* Local caching store of the Supernote Cloud integration: the folder      *)
(* listing cache (LocalStore.get_folder_contents over the metadata store   *)
(* and the remote client) and the note-file cache on disk                  *)
(* (LocalStore._get_notebook_file, NotebookFile).                          *)
(*                                                                         *)
(* Time is counted in ticks of 30 minutes.  Names are tuples of characters *)
(* so that suffix tests and stems are computed, not looked up.             *)
(***************************************************************************)
EXTENDS Integers, Sequences, FiniteSets, Bags, TLC

\* ------------------------------------------------------------------ bounds

\* The clock runs from 0 to MaxTime ticks.
MaxTime == 3

\* Page images are asked for the page numbers -1 .. MaxPageNum.
MaxPageNum == 1

\* A remote listing examined on its own has up to MaxListLen entries.
MaxListLen == 3

\* A note file examined on its own has a stem of 1 .. MaxStemLen characters.
MaxStemLen == 3

\* An identifier has a media_id_path of 1 .. MaxPathLen ids; a string handed
\* to the parser has up to MaxPathLen + 2 separated fields.
MaxPathLen == 3

\* Up to MaxFlows config flows are in progress at a time, and up to
\* MaxEntries config entries are set up.
MaxFlows == 2

MaxEntries == 2

\* The most entries a remote folder holds.
MaxChildren == 101

\* ------------------------------------------------------- program constants

\* store/model.py: MAX_CACHE_LIFETIME = timedelta(hours=1), in 30-minute ticks.
MAX_CACHE_LIFETIME == 2

\* The value of File.is_folder that marks a folder ("Y" or "N").
IS_FOLDER == "Y"

\* store/store.py: NOTE_SUFFIX = ".note"
NOTE_SUFFIX == <<".", "n", "o", "t", "e">>

\* The folders requests are made for: the account root 0 and the folder 1
\* (FileDocs) below it.
FolderIds == {0, 1}

\* ------------------------------------------------------------ remote side

\* Entries the remote listing may hold (api model File).
FileDocs ==
    [id |-> 1, directory_id |-> 0, file_name |-> <<"d">>, md5 |-> "",
     is_folder |-> "Y"]

FileGuitar ==
    [id |-> 2, directory_id |-> 0,
     file_name |-> <<"G", ".", "n", "o", "t", "e">>, md5 |-> "md5-A",
     is_folder |-> "N"]

\* A file with the id of the folder FileDocs, and one more folder.
FileClash ==
    [id |-> 1, directory_id |-> 0, file_name |-> <<"c">>, md5 |-> "md5-C",
     is_folder |-> "N"]

FileArchive ==
    [id |-> 3, directory_id |-> 0, file_name |-> <<"a">>, md5 |-> "",
     is_folder |-> "Y"]

\* The listings of up to MaxListLen of these entries, in any order.
Listings ==
    UNION {[1..n -> {FileDocs, FileGuitar, FileClash, FileArchive}] :
              n \in 0..MaxListLen}

\* The file_list of the FileListResponse bodies the remote may answer with.
FileLists == {<<>>, <<FileDocs, FileGuitar>>}

\* An HTTP exchange as the client sees it: the transport either fails
\* (aiohttp ClientError) or yields a response with a status and a body; the
\* body decodes to a FileListResponse (json = TRUE) or does not.
ListReplies ==
    [transport : {"ok"}, status : {200}, json : {TRUE}, body : FileLists]
      \cup [transport : {"ok"}, status : {200, 401, 403, 500},
            json : {FALSE}, body : {<<>>}]
      \cup [transport : {"ClientError"}, status : {0}, json : {FALSE},
            body : {<<>>}]

\* The exchanges a browse request is answered with: a listing, a 401 and a
\* 500, for each of its (up to two) listing calls.
BrowseReplies ==
    {r \in ListReplies :
        \/ r.json /\ r.body # <<>>
        \/ ~r.json /\ r.status \in {401, 500}}

NoReply == [transport |-> "none", status |-> 0, json |-> FALSE, body |-> <<>>]

\* --------------------------------------------------------- remote client

\* Client._raise_for_status: aiohttp's raise_for_status raises for a status
\* of 400 and above; 401 becomes UnauthorizedException, the rest ApiException.
raise_for_status(status) ==
    IF status >= 400
    THEN IF status = 401 THEN "Unauthorized" ELSE "ApiError"
    ELSE "none"

\* Client.post / Client.post_json: a transport error is an ApiException, then
\* the status is checked, then the body is decoded (a body that does not
\* decode is an ApiException).
post_json(reply) ==
    IF reply.transport = "ClientError" THEN "ApiError"
    ELSE IF raise_for_status(reply.status) # "none"
         THEN raise_for_status(reply.status)
    ELSE IF ~reply.json THEN "ApiError"
    ELSE "none"

\* SupernoteCloudClient.file_list: the error raised, and the decoded
\* FileListResponse.file_list when there is none.
file_list(reply) ==
    [err |-> post_json(reply),
     file_list |-> IF post_json(reply) = "none" THEN reply.body ELSE <<>>]

\* --------------------------------------------------------- cache entries

\* FolderContents; NoEntry stands for None (no cache entry).
NoEntry ==
    [folder_id |-> -1, file_children |-> <<>>, folder_children |-> <<>>,
     cache_ts |-> -1]

\* A variant of is_expired that expires an entry exactly MAX_CACHE_LIFETIME old.
is_expired_at_ttl(fc, t) == (t - fc.cache_ts) >= MAX_CACHE_LIFETIME

\* FolderContents.is_expired at clock reading t.
is_expired(fc, t) == (t - fc.cache_ts) > MAX_CACHE_LIFETIME

FileInfoOf(file) ==
    [file_id |-> file.id, parent_folder_id |-> file.directory_id,
     name |-> file.file_name, md5 |-> file.md5]

FolderInfoOf(file) ==
    [folder_id |-> file.id, parent_folder_id |-> file.directory_id,
     name |-> file.file_name]

\* The loop of get_folder_contents over the response: the entries whose
\* is_folder flag is IS_FOLDER go to folder_children, the others to
\* file_children, in response order.
Partition(files, want_folders) ==
    LET kept == SelectSeq(files,
                    LAMBDA file : (file.is_folder = IS_FOLDER) = want_folders)
    IN  [k \in 1..Len(kept) |->
            IF want_folders THEN FolderInfoOf(kept[k])
            ELSE FileInfoOf(kept[k])]

\* FolderContents(folder_id=...) filled from the response; cache_ts defaults
\* to datetime.now().
NewFolderContents(folder_id, files, t) ==
    [folder_id |-> folder_id,
     file_children |-> Partition(files, FALSE),
     folder_children |-> Partition(files, TRUE),
     cache_ts |-> t]

\* -------------------------------------------------------- metadata store

\* MetadataStore.get_folder_contents: the stored entry, None when absent.
metadata_get(md, folder_id) == md[folder_id]

\* A variant of set_folder_contents that never saves.
metadata_set_unsaved(md, fc) == md

\* MetadataStore.set_folder_contents: load, replace one key, save.
metadata_set(md, fc) == [md EXCEPT ![fc.folder_id] = fc]

\* ------------------------------------------------------------ LocalStore

\* Variants of the except clause: one that never calls reauth_cb, one that
\* catches every ApiException (UnauthorizedException is one).
CallsReauth_never(err) == FALSE

CallsReauth_any(err) == err # "none"

\* The except clause of the store: the errors for which reauth_cb is called.
CallsReauth(err) == err = "Unauthorized"

\* LocalStore.get_folder_contents run to completion at clock reading t with
\* the remote answering `reply` if asked: what it returns or raises, the
\* metadata store afterwards, and what it did.
get_folder_contents(md, folder_id, t, reply) ==
    LET cached == metadata_get(md, folder_id)
        listed == file_list(reply)
        fresh  == NewFolderContents(folder_id, listed.file_list, t)
    IN  IF cached # NoEntry /\ ~is_expired(cached, t)
        THEN [ret |-> cached, err |-> "none", md |-> md,
              nList |-> 0, nReauth |-> 0, wrote |-> FALSE]
        ELSE IF listed.err # "none"
        THEN [ret |-> NoEntry, err |-> listed.err, md |-> md,
              nList |-> 1,
              nReauth |-> IF CallsReauth(listed.err) THEN 1 ELSE 0,
              wrote |-> FALSE]
        ELSE [ret |-> fresh, err |-> "none", md |-> metadata_set(md, fresh),
              nList |-> 1, nReauth |-> 0, wrote |-> TRUE]

\* FolderContents.children.get(id): the dict is filled from file_children and
\* then from folder_children, a later entry replacing an earlier one with the
\* same id.  NoChild stands for None.
NoChild == [none |-> TRUE]

RECURSIVE LastWithId(_, _, _, _)
LastWithId(infos, key, id, found) ==
    IF infos = <<>> THEN found
    ELSE LastWithId(Tail(infos), key, id,
                    IF Head(infos)[key] = id THEN Head(infos) ELSE found)

children_get(fc, id) ==
    LastWithId(fc.folder_children, "folder_id", id,
               LastWithId(fc.file_children, "file_id", id, NoChild))

\* A variant of the kind check that takes any child for a folder.
IsFolderInfo_any(info) == TRUE

\* isinstance(info, FolderInfo)
IsFolderInfo(info) == "folder_id" \in DOMAIN info

\* SupernoteCloudMediaSource.async_browse_media for a FOLDER identifier with
\* media_id_path `path`: a folder below the root is first looked up in the
\* contents of its parent (second-to-last path element), then the folder
\* itself is listed.  An exception of the store propagates at once.
browse_folder(md, path, t, reply1, reply2) ==
    LET media_id == path[Len(path)]
        parent   == get_folder_contents(md, path[Len(path) - 1], t, reply1)
        info     == children_get(parent.ret, media_id)
        skip     == [ret |-> NoEntry, err |-> "none", md |-> md,
                     nList |-> 0, nReauth |-> 0, wrote |-> FALSE]
        first    == IF Len(path) = 1 THEN skip ELSE parent
        second   == get_folder_contents(first.md, media_id, t, reply2)
    IN  IF first.err # "none" THEN first
        ELSE IF Len(path) > 1 /\ (info = NoChild \/ ~IsFolderInfo(info))
        THEN [first EXCEPT !.ret = NoEntry, !.err = "BrowseError"]
        ELSE [second EXCEPT !.nList = first.nList + second.nList,
                            !.wrote = first.wrote \/ second.wrote]

\* reauth_cb -> entry.async_start_reauth: the host opens a reauth flow for the
\* entry unless one is already in progress.
start_reauth(flows, calls) == IF calls > 0 /\ flows = 0 THEN 1 ELSE flows

\* ------------------------------------------------------------------ text

\* Strings are tuples of characters.
DigitChars == <<"0", "1", "2", "3", "4", "5", "6", "7", "8", "9">>

IsDigit(c) == \E d \in 1..10 : DigitChars[d] = c

DigitValue(c) == (CHOOSE d \in 1..10 : DigitChars[d] = c) - 1

\* str(part) of an int: decimal digits, "-" before a negative number.
RECURSIVE NatToStr(_)
NatToStr(n) ==
    IF n < 10 THEN <<DigitChars[n + 1]>>
    ELSE NatToStr(n \div 10) \o <<DigitChars[(n % 10) + 1]>>

IntToStr(n) == IF n < 0 THEN <<"-">> \o NatToStr(-n) ELSE NatToStr(n)

\* ------------------------------------------------------------ note files

\* Python's optional values: None, and a value that is there.
None == <<>>

Some(x) == <<x>>

\* A variant of str.endswith that compares the lengths only.
EndsWith_length_only(s, suffix) == Len(s) >= Len(suffix)

\* str.endswith
EndsWith(s, suffix) ==
    /\ Len(s) >= Len(suffix)
    /\ SubSeq(s, Len(s) - Len(suffix) + 1, Len(s)) = suffix

\* The position of the last "." of a name, 0 when it has none (str.rfind).
RECURSIVE LastDot(_, _)
LastDot(s, i) ==
    IF i = 0 THEN 0 ELSE IF s[i] = "." THEN i ELSE LastDot(s, i - 1)

\* pathlib's stem: the name up to its last ".", unless that "." is the first
\* or the last character.
Stem(name) ==
    LET i == LastDot(name, Len(name))
    IN  IF 1 < i /\ i < Len(name) THEN SubSeq(name, 1, i - 1) ELSE name

\* The byte strings a download may yield and the disk may hold: no bytes at
\* all (which is no notebook) and two versions of one notebook.
EmptyBytes == <<>>

DocA == <<1>>

DocB == <<2>>

Bytes == {EmptyBytes, DocA, DocB}

\* supernote.parser.load and get_page(i).get_pageid(): the page ids of a
\* document, in page order.  DocB is DocA edited: its first page keeps its
\* page id, its second page is gone.
Parses(contents) == contents \in {DocA, DocB}

PageIds(contents) ==
    IF contents = DocA THEN <<<<"P", "1">>, <<"P", "2">>>>
    ELSE IF contents = DocB THEN <<<<"P", "1">>>>
    ELSE <<>>

\* hashlib.md5(contents).hexdigest(): a digest that tells the byte strings
\* apart.
Md5(contents) == <<"md5">> \o contents

\* A content hash of the listing that is the hash of none of the byte strings.
StaleHash == <<"some-hash">>

NoteName == <<"G", ".", "n", "o", "t", "e">>

TextName == <<"G", ".", "t", "x", "t">>

\* The FileInfo values requests are made with.
FileInfos ==
    [file_id : {2}, parent_folder_id : {0}, name : {NoteName},
     md5 : {Md5(EmptyBytes), Md5(DocA), Md5(DocB), StaleHash}]
      \cup [file_id : {2}, parent_folder_id : {0}, name : {TextName},
            md5 : {StaleHash}]

NoFileInfo == [file_id |-> -1, parent_folder_id |-> -1, name |-> <<>>,
               md5 |-> <<>>]

\* LocalStore._get_local_file_path: storage_path / parent_folder_id / name
get_local_file_path(fi) == <<fi.parent_folder_id, fi.name>>

LocalPaths == {get_local_file_path(fi) : fi \in FileInfos}

\* The HTTP exchanges of a download (the signed URL, then the bytes).
DownloadReplies ==
    [transport : {"ok"}, status : {200}, json : {TRUE}, body : Bytes]
      \cup [transport : {"ok"}, status : {401, 500}, json : {FALSE},
            body : {<<>>}]

\* SupernoteCloudClient.file_download: the error raised, or the bytes read.
file_download(reply) ==
    [err |-> post_json(reply),
     contents |-> IF post_json(reply) = "none" THEN reply.body ELSE <<>>]

\* f"{page_num:03d}": the decimal digits, zeros before them up to 3 digits.
Pad3(n) ==
    IF Len(NatToStr(n)) >= 3 THEN NatToStr(n)
    ELSE [i \in 1..(3 - Len(NatToStr(n))) |-> "0"] \o NatToStr(n)

\* NotebookFile.__init__: the page names "{stem}-{page_num:03d}-{page_id}",
\* one per page, stem being pathlib's stem of the note name.
page_names(note_name, contents) ==
    [i \in 1..Len(PageIds(contents)) |->
        Stem(note_name) \o <<"-">> \o Pad3(i - 1) \o <<"-">>
            \o PageIds(contents)[i]]

\* store/store.py: PNG_SUFFIX = ".png"
PNG_SUFFIX == <<".", "p", "n", "g">>

\* pathlib's with_suffix: the suffix of the name (what follows its stem) is
\* replaced by the new one.
with_suffix(name, suffix) == Stem(name) \o suffix

\* self._pages[page_num]: a list is indexed from 0, and from its end by a
\* negative index.
PyIndex(seq, i) == IF i >= 0 THEN seq[i + 1] ELSE seq[Len(seq) + i + 1]

\* A variant of the page number check that lets negative numbers pass.
InvalidPage_upper_only(names, page_num) == page_num >= Len(names)

\* NotebookFile.local_png_path: the page numbers it raises ValueError for.
InvalidPage(names, page_num) == page_num >= Len(names) \/ page_num < 0

\* NotebookFile.local_png_path for a valid page_num: the page name, as a
\* .png, in the directory named by the stem of the note file, beside it.
local_png_path(local_path, names, page_num) ==
    <<local_path[1], Stem(local_path[2]),
      with_suffix(PyIndex(names, page_num), PNG_SUFFIX)>>

\* A variant of the existence test that finds no image.
png_exists_never(images, path) == FALSE

\* The rendered page images on disk: records [path, img].
png_exists(images, path) == \E e \in images : e.path = path

png_read(images, path) == (CHOOSE e \in images : e.path = path).img

png_unlink(images, path) == {e \in images : e.path # path}

png_write(images, path, img) ==
    png_unlink(images, path) \cup {[path |-> path, img |-> img]}

\* supernote.converter.ImageConverter(notebook).convert(page_num), saved as
\* PNG: the image of that page of those bytes.
Render(contents, page_num) == [src |-> contents, page |-> page_num]

NoImage == [src |-> <<>>, page |-> -1]

\* NotebookFile.clear_png_cache: unlinks the image of every page of this
\* notebook that exists.
clear_png_cache(images, local_path, names) ==
    {e \in images :
        \A n \in 1..Len(names) :
            e.path # local_png_path(local_path, names, n - 1)}

\* A variant of _get_or_invalidate that never reuses the local copy.
get_or_invalidate_never(files, fi) ==
    [files |-> [files EXCEPT ![get_local_file_path(fi)] = None],
     contents |-> None,
     local |-> IF files[get_local_file_path(fi)] = None THEN "absent"
               ELSE "stale"]

\* _get_or_invalidate: the bytes of the local copy when their md5 is
\* local_file.md5; a local copy with another md5 is unlinked.
get_or_invalidate(files, fi) ==
    LET path == get_local_file_path(fi) IN
    IF files[path] = None
    THEN [files |-> files, contents |-> None, local |-> "absent"]
    ELSE IF Md5(files[path][1]) = fi.md5
    THEN [files |-> files, contents |-> files[path], local |-> "match"]
    ELSE [files |-> [files EXCEPT ![path] = None], contents |-> None,
          local |-> "stale"]

\* `if contents:` - None and empty bytes are both false.
Truthy(contents) == contents # None /\ contents[1] # <<>>

\* A variant of the hash comparison after a download that fails on a mismatch.
mismatch_is_error_strict(md5sum, md5) == md5sum # md5

\* The hash comparison after a download: a mismatch is logged, nothing is
\* raised.
mismatch_is_error(md5sum, md5) == FALSE

\* LocalStore._get_notebook_file run with the download answered by `reply`
\* if asked, and the request cancelled at the await named by `cancel`
\* ("download": while file_download is awaited; "write": while the executor
\* job _write_contents is awaited, which then still completes) if it gets
\* there.  The disk afterwards, the notebook (its bytes and page names) or
\* the error, and what was done.
get_notebook_file(files, images, fi, reply, cancel) ==
    LET path    == get_local_file_path(fi)
        checked == get_or_invalidate(files, fi)
        got     == file_download(reply)
        written == [checked.files EXCEPT ![path] = Some(got.contents)]
        base    == [files |-> files, images |-> images, err |-> "none",
                    contents |-> <<>>, names |-> <<>>, local |-> "none",
                    got |-> None, nDownload |-> 0, nReauth |-> 0]
        fetched == [base EXCEPT !.files = written, !.local = checked.local,
                       !.got = Some(got.contents), !.nDownload = 1]
    IN  IF ~EndsWith(fi.name, NOTE_SUFFIX)
        THEN [base EXCEPT !.err = "ValueError"]
        ELSE IF Truthy(checked.contents)
        THEN IF Parses(checked.contents[1])
             THEN [base EXCEPT !.local = checked.local,
                      !.contents = checked.contents[1],
                      !.names = page_names(fi.name, checked.contents[1])]
             ELSE [base EXCEPT !.local = checked.local,
                      !.err = "MalformedDocument"]
        ELSE IF cancel = "download"
        THEN [base EXCEPT !.files = checked.files, !.local = checked.local,
                 !.nDownload = 1, !.err = "Cancelled"]
        ELSE IF got.err # "none"
        THEN [base EXCEPT !.files = checked.files, !.local = checked.local,
                 !.nDownload = 1, !.err = got.err,
                 !.nReauth = IF CallsReauth(got.err) THEN 1 ELSE 0]
        ELSE IF cancel = "write"
        THEN [fetched EXCEPT !.err = "Cancelled"]
        ELSE IF mismatch_is_error(Md5(got.contents), fi.md5)
        THEN [fetched EXCEPT !.err = "HashMismatch"]
        ELSE IF ~Parses(got.contents)
        THEN [fetched EXCEPT !.err = "MalformedDocument"]
        ELSE [fetched EXCEPT !.contents = got.contents,
                 !.names = page_names(fi.name, got.contents),
                 !.images = clear_png_cache(images, path,
                                page_names(fi.name, got.contents))]

\* LocalStore.get_note_page_names
get_note_page_names(files, images, fi, reply, cancel) ==
    get_notebook_file(files, images, fi, reply, cancel)
        @@ [img |-> NoImage, nRender |-> 0]

\* LocalStore.get_note_png: the image on disk for the page if there is one,
\* else the page is rendered, saved and read back.
get_note_png(files, images, fi, page_num, reply, cancel) ==
    LET nb   == get_notebook_file(files, images, fi, reply, cancel)
        path == local_png_path(get_local_file_path(fi), nb.names, page_num)
        made == png_write(nb.images, path, Render(nb.contents, page_num))
    IN  IF nb.err # "none"
        THEN nb @@ [img |-> NoImage, nRender |-> 0]
        ELSE IF InvalidPage(nb.names, page_num)
        THEN [nb EXCEPT !.err = "ValueError"]
                 @@ [img |-> NoImage, nRender |-> 0]
        ELSE IF png_exists(nb.images, path)
        THEN nb @@ [img |-> png_read(nb.images, path), nRender |-> 0]
        ELSE [nb EXCEPT !.images = made]
                 @@ [img |-> png_read(made, path), nRender |-> 1]

\* A variant of a render that fails and leaves a part of the image behind.
render_fails_partial(files, images, fi, page_num, reply, cancel) ==
    LET nb   == get_notebook_file(files, images, fi, reply, cancel)
        path == local_png_path(get_local_file_path(fi), nb.names, page_num)
    IN  [nb EXCEPT !.err = "ConversionFailed",
                   !.images = png_write(nb.images, path, NoImage)]
            @@ [img |-> NoImage, nRender |-> 1]

\* LocalStore.get_note_png when the conversion of the page raises in
\* _write_png, for a call that comes to render: nothing is saved and the
\* error leaves get_note_png.
render_fails(files, images, fi, page_num, reply, cancel) ==
    [get_notebook_file(files, images, fi, reply, cancel)
        EXCEPT !.err = "ConversionFailed"]
        @@ [img |-> NoImage, nRender |-> 1]

\* The names of note files: a stem of letters, dots and dashes, then the
\* note suffix.
NoteNames ==
    {stem \o NOTE_SUFFIX :
        stem \in UNION {[1..n -> {"a", "b", ".", "-"}] : n \in 1..MaxStemLen}}

\* NotebookFile(contents, name, local_path): its page names, and the image
\* path of each page.
NotebookFile(contents, note_name, local_path) ==
    [names |-> page_names(note_name, contents),
     paths |-> [i \in 1..Len(page_names(note_name, contents)) |->
                   local_png_path(local_path,
                       page_names(note_name, contents), i - 1)]]

\* ----------------------------------------------------------- identifiers

\* Strings are tuples of characters.  str.split(sep, maxsplit): the parts
\* between the first maxsplit separators (all of them for maxsplit = -1).
RECURSIVE FirstAt(_, _, _)
FirstAt(s, c, i) ==
    IF i > Len(s) THEN 0 ELSE IF s[i] = c THEN i ELSE FirstAt(s, c, i + 1)

RECURSIVE Split(_, _, _)
Split(s, sep, maxsplit) ==
    LET i == FirstAt(s, sep, 1)
    IN  IF maxsplit = 0 \/ i = 0 THEN <<s>>
        ELSE <<SubSeq(s, 1, i - 1)>>
                \o Split(SubSeq(s, i + 1, Len(s)), sep, maxsplit - 1)

\* separator.join(parts)
RECURSIVE Join(_, _)
Join(parts, sep) ==
    IF parts = <<>> THEN <<>>
    ELSE IF Len(parts) = 1 THEN parts[1]
    ELSE parts[1] \o <<sep>> \o Join(Tail(parts), sep)

\* int(p) of a str: blanks around the number are dropped, a sign may lead,
\* and the digits may be grouped by single underscores; anything else is a
\* ValueError.
RECURSIVE StripLeft(_)
StripLeft(s) ==
    IF s # <<>> /\ Head(s) = " " THEN StripLeft(Tail(s)) ELSE s

RECURSIVE StripRight(_)
StripRight(s) ==
    IF s # <<>> /\ s[Len(s)] = " "
    THEN StripRight(SubSeq(s, 1, Len(s) - 1)) ELSE s

RECURSIVE DigitsValue(_, _)
DigitsValue(s, acc) ==
    IF s = <<>> THEN acc
    ELSE IF Head(s) = "_" THEN DigitsValue(Tail(s), acc)
    ELSE DigitsValue(Tail(s), 10 * acc + DigitValue(Head(s)))

IsDigits(s) ==
    /\ s # <<>>
    /\ IsDigit(s[1]) /\ IsDigit(s[Len(s)])
    /\ \A i \in 1..Len(s) : IsDigit(s[i]) \/ s[i] = "_"
    /\ \A i \in 1..(Len(s) - 1) : ~(s[i] = "_" /\ s[i + 1] = "_")

ParseInt(p) ==
    LET t      == StripRight(StripLeft(p))
        signed == t # <<>> /\ Head(t) \in {"+", "-"}
        body   == IF signed THEN Tail(t) ELSE t
    IN  IF ~IsDigits(body) THEN [ok |-> FALSE, value |-> 0]
        ELSE [ok |-> TRUE,
              value |-> IF signed /\ Head(t) = "-"
                        THEN -DigitsValue(body, 0) ELSE DigitsValue(body, 0)]

\* SupernoteIdentifierType: the values of the members.
NOTE_FILE == <<"n">>

NOTE_PAGE == <<"p">>

FOLDER == <<"f">>

\* A variant of SupernoteIdentifierType.of that takes any name for a type.
IdentifierType_of_any(name) == [ok |-> TRUE, value |-> name]

\* SupernoteIdentifierType.of: the member with that value, else ValueError.
IdentifierType_of(name) ==
    IF name \in {NOTE_FILE, NOTE_PAGE, FOLDER}
    THEN [ok |-> TRUE, value |-> name]
    ELSE [ok |-> FALSE, value |-> <<>>]

\* SupernoteIdentifier; NoIdentifier stands for none.
NoIdentifier ==
    [config_entry_id |-> <<>>, id_type |-> <<>>, media_id_path |-> <<>>]

\* SupernoteIdentifier.as_string
as_string(x, separator) ==
    x.config_entry_id \o <<separator>> \o x.id_type \o <<separator>>
        \o Join([i \in 1..Len(x.media_id_path) |->
                    IntToStr(x.media_id_path[i])], separator)

\* SupernoteIdentifier.of: the identifier parsed, or ValueError.
of(identifier, separator) ==
    LET parts      == Split(identifier, separator, 2)
        segments   == Split(parts[3], separator, -1)
        path_parts == [i \in 1..Len(segments) |-> ParseInt(segments[i])]
        id_type    == IdentifierType_of(parts[2])
    IN  IF Len(parts) # 3
        THEN [err |-> "ValueError", ident |-> NoIdentifier]
        ELSE IF \E i \in 1..Len(segments) : ~path_parts[i].ok
        THEN [err |-> "ValueError", ident |-> NoIdentifier]
        ELSE IF ~id_type.ok
        THEN [err |-> "ValueError", ident |-> NoIdentifier]
        ELSE [err |-> "none",
              ident |-> [config_entry_id |-> parts[1],
                         id_type |-> id_type.value,
                         media_id_path |->
                             [i \in 1..Len(segments) |-> path_parts[i].value]]]

\* SupernoteIdentifier.encode and decode: the ":" form.
encode(x) == as_string(x, ":")

decode(identifier) == of(identifier, ":")

\* seq[-k] of a list: the k-th element from its end.
FromEnd(seq, k) == seq[Len(seq) - k + 1]

\* The accessors return an int, None, or raise ValueError.
Returned(v) == [err |-> "none", value |-> <<v>>]

ReturnedNone == [err |-> "none", value |-> <<>>]

Raised == [err |-> "ValueError", value |-> <<>>]

\* SupernoteIdentifier.is_root
is_root(x) == Len(x.media_id_path) = 1

\* SupernoteIdentifier.media_id
media_id(x) == FromEnd(x.media_id_path, 1)

\* SupernoteIdentifier.parent_folder_id
parent_folder_id(x) ==
    IF x.id_type = NOTE_PAGE
    THEN IF Len(x.media_id_path) < 3 THEN Raised
         ELSE Returned(FromEnd(x.media_id_path, 3))
    ELSE IF Len(x.media_id_path) < 2 THEN ReturnedNone
    ELSE Returned(FromEnd(x.media_id_path, 2))

\* SupernoteIdentifier.note_file_id
note_file_id(x) ==
    IF x.id_type = NOTE_FILE THEN Returned(media_id(x))
    ELSE IF x.id_type # NOTE_PAGE THEN ReturnedNone
    ELSE IF Len(x.media_id_path) < 2 THEN Raised
    ELSE Returned(FromEnd(x.media_id_path, 2))

\* SupernoteIdentifier.page_id
page_id(x) ==
    IF x.id_type # NOTE_PAGE THEN ReturnedNone
    ELSE IF Len(x.media_id_path) < 3 THEN Raised
    ELSE Returned(FromEnd(x.media_id_path, 1))

\* async_browse_media: the empty identifier is the list of accounts and
\* parses nothing; an identifier that does not parse is a BrowseError
\* "Could not parse identifier".
browse_parse(identifier) ==
    IF identifier = <<>> THEN "accounts"
    ELSE IF of(identifier, "/").err # "none"
    THEN "BrowseError: Could not parse identifier"
    ELSE "parsed"

\* The identifiers built: account ids with and without a separator in them,
\* the three types, and paths of 1 .. MaxPathLen ids.
ConfigEntryIds ==
    {<<"e">>, <<>>, <<"a", "/", "b">>, <<"a", ":", "b">>}

PathIds == {-1, 0, 7, 12}

Identifiers ==
    [config_entry_id : ConfigEntryIds,
     id_type : {FOLDER, NOTE_FILE, NOTE_PAGE},
     media_id_path : UNION {[1..n -> PathIds] : n \in 1..MaxPathLen}]

Separators == {"/", ":"}

\* The strings parsed: 1 .. MaxPathLen + 2 fields joined by the separator,
\* the first an account id, the second a type tag or not, the others
\* numbers written one way or another, or no numbers.
TagFields == {<<"f">>, <<"n">>, <<"p">>, <<"q">>, <<>>}

SegmentFields ==
    {<<"0">>, <<"1", "2">>, <<"-", "1">>, <<"0", "1">>, <<" ", "1">>,
     <<"x">>, <<>>}

FieldLists ==
    {<<<<"e">>>>}
      \cup {<<<<"e">>, tag>> : tag \in TagFields}
      \cup UNION {{<<<<"e">>, tag>> \o segments :
                      tag \in TagFields,
                      segments \in [1..n -> SegmentFields]} :
                  n \in 1..MaxPathLen}

\* ---------------------------------------------------------- media source

\* The config entry set up at the host: its unique id and its title.
EntryUniqueId == <<"e">>

EntryTitle == <<"A", "c", "c", "o", "u", "n", "t">>

\* hass.config_entries.async_entry_for_domain_unique_id: is there an entry?
entry_for_unique_id(config_entry_id) == config_entry_id = EntryUniqueId

\* The ids requests name: the root 0, the folder 1 in it, the note file 2 in
\* it, the folder 3 in folder 1, and 9, which is no item of the account.
MediaIds == {0, 1, 2, 3, 9}

\* The note file of the root, and the folder of folder 1.
FileNote ==
    [id |-> 2, directory_id |-> 0, file_name |-> NoteName,
     md5 |-> Md5(DocA), is_folder |-> "N"]

FileSub ==
    [id |-> 3, directory_id |-> 1, file_name |-> <<"s">>, md5 |-> "",
     is_folder |-> "Y"]

ListingReply(files) ==
    [transport |-> "ok", status |-> 200, json |-> TRUE, body |-> files]

UnauthorizedReply ==
    [transport |-> "ok", status |-> 401, json |-> FALSE, body |-> <<>>]

\* What the remote answers during one request, for each folder id asked: the
\* root holds the folder 1 and the note file 2, or the note file is gone, or
\* the token is refused; folder 1 holds folder 3, or the token is refused;
\* anything else is empty.
MediaRemotes ==
    {[f \in MediaIds |->
         IF f = 0 THEN r0 ELSE IF f = 1 THEN r1 ELSE ListingReply(<<>>)] :
       r0 \in {ListingReply(<<FileDocs, FileNote>>), ListingReply(<<FileDocs>>),
               UnauthorizedReply},
       r1 \in {ListingReply(<<FileSub>>), UnauthorizedReply}}

\* isinstance(info, FileInfo)
IsFileInfo(info) == "file_id" \in DOMAIN info

\* The key of an entry of FolderContents.children.
InfoId(info) ==
    IF "folder_id" \in DOMAIN info THEN info.folder_id ELSE info.file_id

\* children[id] = info: a new key goes last, a key that is there keeps its
\* place and gets the new value.
DictPut(values, info) ==
    IF \E i \in 1..Len(values) : InfoId(values[i]) = InfoId(info)
    THEN [i \in 1..Len(values) |->
             IF InfoId(values[i]) = InfoId(info) THEN info ELSE values[i]]
    ELSE Append(values, info)

RECURSIVE DictFill(_, _)
DictFill(values, infos) ==
    IF infos = <<>> THEN values
    ELSE DictFill(DictPut(values, Head(infos)), Tail(infos))

\* FolderContents.children.values()
children_values(fc) ==
    DictFill(DictFill(<<>>, fc.file_children), fc.folder_children)

\* BrowseMediaSource: identifier, title and children (NoNode: none returned).
NoNode == [identifier |-> <<>>, title |-> <<>>, children |-> <<>>]

BrowseMediaSource(identifier, title) ==
    [identifier |-> identifier, title |-> title, children |-> <<>>]

\* _build_account
build_account(title, identifier) ==
    BrowseMediaSource(as_string(identifier, "/"), title)

\* A variant of _build_folder that names the folder alone.
build_folder_leaf_only(config_entry_id, parent, folder_id, name) ==
    BrowseMediaSource(
        as_string([config_entry_id |-> config_entry_id, id_type |-> FOLDER,
                   media_id_path |-> <<folder_id>>], "/"), name)

\* _build_folder
build_folder(config_entry_id, parent, folder_id, name) ==
    BrowseMediaSource(
        as_string([config_entry_id |-> config_entry_id, id_type |-> FOLDER,
                   media_id_path |-> <<parent, folder_id>>], "/"), name)

\* _build_file
build_file(config_entry_id, parent, file_id, name) ==
    BrowseMediaSource(
        as_string([config_entry_id |-> config_entry_id,
                   id_type |-> NOTE_FILE,
                   media_id_path |-> <<parent, file_id>>], "/"), name)

\* The page nodes of a note file: range(0, num_pages), titled "Page 1" ..
build_pages(config_entry_id, parent, file_id, num_pages) ==
    [i \in 1..num_pages |->
        BrowseMediaSource(
            as_string([config_entry_id |-> config_entry_id,
                       id_type |-> NOTE_PAGE,
                       media_id_path |-> <<parent, file_id, i - 1>>], "/"),
            <<"P", "a", "g", "e", " ">> \o NatToStr(i))]

\* store.get_note_pages(file_info): LocalStore has no attribute of that name
\* (its methods are get_folder_contents, get_note_page_names and
\* get_note_png), so the call raises AttributeError.
get_note_pages(file_info) == [err |-> "AttributeError", value |-> 0]

\* The title of the node that lists the accounts.
SourceTitle ==
    <<"S", "u", "p", "e", "r", "n", "o", "t", "e", " ",
      "C", "l", "o", "u", "d">>

\* What a browse request has done so far, and a request stopped by an
\* exception.
BrowseStart(md) ==
    [err |-> "none", node |-> NoNode, md |-> md, asked |-> <<>>,
     nList |-> 0, nReauth |-> 0]

BrowseAfter(r, folder_id, got) ==
    [r EXCEPT !.md = got.md, !.asked = Append(r.asked, folder_id),
              !.nList = r.nList + got.nList,
              !.nReauth = r.nReauth + got.nReauth]

BrowseRaise(r, err) == [r EXCEPT !.err = err, !.node = NoNode]

\* async_browse_media for a FOLDER identifier x.
browse_folder_node(md, x, t, remote) ==
    LET start    == BrowseStart(md)
        pf       == parent_folder_id(x)
        parent   == get_folder_contents(md, pf.value[1], t, remote[pf.value[1]])
        asked1   == BrowseAfter(start, pf.value[1], parent)
        info     == children_get(parent.ret, media_id(x))
        first    == IF is_root(x) THEN start ELSE asked1
        source   == IF is_root(x) THEN build_account(EntryTitle, x)
                    ELSE build_folder(EntryUniqueId, pf.value[1],
                                      info.folder_id, info.name)
        contents == get_folder_contents(first.md, media_id(x), t,
                                        remote[media_id(x)])
        asked2   == BrowseAfter(first, media_id(x), contents)
        kids     == children_values(contents.ret)
        children == [i \in 1..Len(kids) |->
                        IF IsFileInfo(kids[i])
                        THEN build_file(EntryUniqueId, media_id(x),
                                        kids[i].file_id, kids[i].name)
                        ELSE build_folder(EntryUniqueId, media_id(x),
                                          kids[i].folder_id, kids[i].name)]
    IN  IF ~is_root(x) /\ pf.value = <<>>
        THEN BrowseRaise(start, "BrowseError")
        ELSE IF ~is_root(x) /\ parent.err # "none"
        THEN BrowseRaise(asked1, parent.err)
        ELSE IF ~is_root(x) /\ info = NoChild
        THEN BrowseRaise(asked1, "BrowseError")
        ELSE IF ~is_root(x) /\ ~IsFolderInfo(info)
        THEN BrowseRaise(asked1, "BrowseError")
        ELSE IF ~is_root(x) /\ "folder_id" \notin DOMAIN info
        THEN BrowseRaise(asked1, "AttributeError")
        ELSE IF contents.err # "none"
        THEN BrowseRaise(asked2, contents.err)
        ELSE [asked2 EXCEPT !.node = [source EXCEPT !.children = children]]

\* async_browse_media for a NOTE_FILE identifier x.
browse_note_file(md, x, t, remote) ==
    LET start     == BrowseStart(md)
        pf        == parent_folder_id(x)
        parent    == get_folder_contents(md, pf.value[1], t, remote[pf.value[1]])
        asked1    == BrowseAfter(start, pf.value[1], parent)
        file_info == children_get(parent.ret, media_id(x))
        source    == build_file(EntryUniqueId, pf.value[1],
                                file_info.file_id, file_info.name)
        num_pages == get_note_pages(file_info)
    IN  IF pf.value = <<>>
        THEN BrowseRaise(start, "ValueError")
        ELSE IF parent.err # "none"
        THEN BrowseRaise(asked1, parent.err)
        ELSE IF file_info = NoChild
        THEN BrowseRaise(asked1, "BrowseError")
        ELSE IF ~IsFileInfo(file_info)
        THEN BrowseRaise(asked1, "BrowseError")
        ELSE IF num_pages.err # "none"
        THEN BrowseRaise(asked1, num_pages.err)
        ELSE [asked1 EXCEPT !.node =
                 [source EXCEPT !.children =
                     build_pages(x.config_entry_id, pf.value[1], media_id(x),
                                 num_pages.value)]]

\* SupernoteCloudMediaSource.async_browse_media for item.identifier = item,
\* at clock reading t with the remote answering as `remote` if asked: the
\* node returned or the exception raised, the folder cache afterwards, the
\* folders asked of the store in order, and the remote calls made.
async_browse_media(md, item, t, remote) ==
    LET start  == BrowseStart(md)
        parsed == of(item, "/")
        x      == parsed.ident
    IN  IF item = <<>>
        THEN [start EXCEPT !.node =
                 [BrowseMediaSource(<<>>, SourceTitle) EXCEPT !.children =
                     <<build_account(EntryTitle,
                           [config_entry_id |-> EntryUniqueId,
                            id_type |-> FOLDER, media_id_path |-> <<0>>])>>]]
        ELSE IF parsed.err # "none" THEN BrowseRaise(start, "BrowseError")
        ELSE IF ~entry_for_unique_id(x.config_entry_id)
        THEN BrowseRaise(start, "BrowseError")
        ELSE IF x.id_type = FOLDER THEN browse_folder_node(md, x, t, remote)
        ELSE IF x.id_type = NOTE_PAGE THEN BrowseRaise(start, "ValueError")
        ELSE browse_note_file(md, x, t, remote)

\* An exception that leaves ItemContentView.get is answered by the web
\* server with 500 Internal Server Error.
INTERNAL_SERVER_ERROR == 500

\* What the view has done so far, and its response.
ViewStart(md, files, images) ==
    [status |-> 0, err |-> "none", body |-> NoImage, md |-> md,
     files |-> files, images |-> images, asked |-> <<>>, nList |-> 0,
     nReauth |-> 0, nDownload |-> 0, nRender |-> 0]

Respond(r, status) == [r EXCEPT !.status = status]

\* A variant in which an exception is answered as a bad request.
Unhandled_as_bad_request(r, err) == [r EXCEPT !.status = 400, !.err = err]

Unhandled(r, err) == [r EXCEPT !.status = INTERNAL_SERVER_ERROR, !.err = err]

\* ItemContentView.get for item_identifier = item, the remote answering a
\* listing call as `remote` and a download as `reply`.
item_content_get(md, files, images, item, t, remote, reply) ==
    LET start   == ViewStart(md, files, images)
        parsed  == decode(item)
        x       == parsed.ident
        pf      == parent_folder_id(x)
        fc      == get_folder_contents(md, pf.value[1], t, remote[pf.value[1]])
        listed  == [start EXCEPT !.md = fc.md, !.asked = <<pf.value[1]>>,
                                 !.nList = fc.nList, !.nReauth = fc.nReauth]
        file_info == children_get(fc.ret, note_file_id(x).value[1])
        png     == get_note_png(files, images, file_info, page_id(x).value[1],
                                reply, "none")
        read    == [listed EXCEPT !.files = png.files, !.images = png.images,
                                  !.nReauth = fc.nReauth + png.nReauth,
                                  !.nDownload = png.nDownload,
                                  !.nRender = png.nRender]
    IN  IF parsed.err # "none" THEN Respond(start, 400)
        ELSE IF x.id_type # NOTE_PAGE THEN Respond(start, 400)
        ELSE IF ~entry_for_unique_id(x.config_entry_id)
        THEN Respond(start, 400)
        ELSE IF pf.err # "none" THEN Unhandled(start, pf.err)
        ELSE IF fc.err # "none" THEN Unhandled(listed, fc.err)
        ELSE IF fc.ret = NoEntry THEN Respond(listed, 400)
        ELSE IF file_info = NoChild THEN Respond(listed, 400)
        ELSE IF png.err # "none" THEN Unhandled(read, png.err)
        ELSE [read EXCEPT !.status = 200, !.body = png.img]

\* The identifiers browsed: of the configured account and of another, of
\* each type, naming items that are there, items of another kind and
\* items that are not there.
BrowseIdentifiers ==
    [config_entry_id : {EntryUniqueId}, id_type : {FOLDER, NOTE_FILE},
     media_id_path : {<<0>>, <<0, 1>>, <<0, 2>>, <<0, 9>>, <<1, 3>>,
                      <<0, 1, 3>>}]
      \cup [config_entry_id : {EntryUniqueId}, id_type : {NOTE_PAGE},
            media_id_path : {<<0, 2, 0>>, <<0, 2, 1>>}]
      \cup [config_entry_id : {<<"x">>}, id_type : {FOLDER},
            media_id_path : {<<0>>}]

\* item.identifier of a browse request: none, one that does not parse, or
\* one of these identifiers.
BrowseItems ==
    {<<>>, <<"b", "a", "d">>} \cup {as_string(x, "/") : x \in BrowseIdentifiers}

\* The identifiers in the URLs of the view.
ViewIdentifiers ==
    [config_entry_id : {EntryUniqueId}, id_type : {NOTE_PAGE},
     media_id_path : {<<0, 2, 0>>, <<0, 2, 1>>, <<0, 2, 5>>, <<0, 2, -1>>,
                      <<0, 9, 0>>, <<0, 1, 0>>, <<0>>, <<2, 0>>,
                      <<9, 0, 2, 0>>}]
      \cup [config_entry_id : {EntryUniqueId}, id_type : {NOTE_FILE, FOLDER},
            media_id_path : {<<0, 2>>}]
      \cup [config_entry_id : {<<"x">>}, id_type : {NOTE_PAGE},
            media_id_path : {<<0, 2, 0>>}]

ViewItems ==
    {<<"b", "a", "d">>} \cup {encode(x) : x \in ViewIdentifiers}

\* The view asks for the parent folder of a page only.
ViewRemotes == {remote \in MediaRemotes : remote[1] = ListingReply(<<FileSub>>)}

\* ----------------------------------------------------------- config flow

\* The usernames typed into the user step, and the access tokens a login
\* returns.
Usernames == {"u", "v"}

AccessTokens == {"token-1", "token-2"}

\* homeassistant.config_entries: SOURCE_USER and SOURCE_REAUTH
SOURCE_USER == "user"

SOURCE_REAUTH == "reauth"

\* A flow in progress: its context (source, entry_id of the entry under
\* reauth or 0, unique_id or "" for none), the step whose form is shown, and
\* self._username ("" for None).
NewFlow(source, step_id, entry_id, unique_id) ==
    [source |-> source, step_id |-> step_id, entry_id |-> entry_id,
     unique_id |-> unique_id, username |-> ""]

NoFlow == NewFlow("", "", 0, "")

\* ConfigFlowResult: a form (with errors["base"], "" for none), an abort
\* with its reason, or the creation of an entry.
async_show_form(step_id, errors) ==
    [type |-> "form", step_id |-> step_id, reason |-> "", errors |-> errors]

AbortFlow(reason) ==
    [type |-> "abort", step_id |-> "", reason |-> reason, errors |-> ""]

async_create_entry ==
    [type |-> "create_entry", step_id |-> "", reason |-> "", errors |-> ""]

NoResult == [type |-> "", step_id |-> "", reason |-> "", errors |-> ""]

\* A variant of the options that leaves the access token out.
EntryOptions_without_token(username, access_token, t) ==
    [username |-> username, access_token |-> "",
     unique_id |-> username, api_username |-> username,
     token_timestamp |-> t]

\* The options of an entry written by _async_create_supernote_entry.
EntryOptions(username, access_token, t) ==
    [username |-> username, access_token |-> access_token,
     unique_id |-> username, api_username |-> username,
     token_timestamp |-> t]

ConfigEntry(unique_id, title, options) ==
    [unique_id |-> unique_id, title |-> title, options |-> options]

\* ConfigFlow.async_set_unique_id: the flow is aborted when another flow of
\* the integration in progress has that unique id in its context.
unique_id_in_progress(others, unique_id) ==
    \E other \in BagToSet(others) : other.unique_id = unique_id

\* ConfigFlow._abort_if_unique_id_mismatch: the unique id of the flow is not
\* that of the entry under reauth.
unique_id_mismatch(entries, flow, unique_id) ==
    entries[flow.entry_id].unique_id # unique_id

\* A variant of _abort_if_unique_id_configured that never aborts.
unique_id_configured_never(entries, unique_id) == FALSE

\* ConfigFlow._abort_if_unique_id_configured: an entry has the unique id.
unique_id_configured(entries, unique_id) ==
    \E i \in 1..Len(entries) : entries[i].unique_id = unique_id

\* A variant of async_update_reload_and_abort that leaves the options.
update_entry_title_only(entry, title, options) == [entry EXCEPT !.title = title]

\* ConfigFlow.async_update_reload_and_abort(entry, title=, data={},
\* options=): the entry as updated.
update_entry(entry, title, options) ==
    [entry EXCEPT !.title = title, !.options = options]

\* What a step of the handler comes to: an exception that leaves it, or its
\* result, with the entries afterwards and whether an entry is to be reloaded.
StepOutcome(raised, result, flow, entries, reload) ==
    [raised |-> raised, result |-> result, flow |-> flow,
     entries |-> entries, reload |-> reload]

\* SupernoteCloudConfigFlowHandler._async_create_supernote_entry with
\* get_capacity answering `capacity`, at clock reading t; `others` are the
\* other flows in progress.
async_create_supernote_entry(entries, others, flow, access_token, capacity, t) ==
    LET unique_id == flow.username
        set       == [flow EXCEPT !.unique_id = unique_id]
        options   == EntryOptions(flow.username, access_token, t)
    IN  IF capacity # "ok"
        THEN StepOutcome("SupernoteException", NoResult, flow, entries, FALSE)
        ELSE IF unique_id_in_progress(others, unique_id)
        THEN StepOutcome("none", AbortFlow("already_in_progress"), flow,
                         entries, FALSE)
        ELSE IF flow.source = SOURCE_REAUTH
        THEN IF unique_id_mismatch(entries, set, unique_id)
             THEN StepOutcome("none", AbortFlow("unique_id_mismatch"), set,
                              entries, FALSE)
             ELSE StepOutcome("none", AbortFlow("reauth_successful"), set,
                      [entries EXCEPT ![flow.entry_id] =
                          update_entry(entries[flow.entry_id], flow.username,
                                       options)],
                      TRUE)
        ELSE IF unique_id_configured(entries, unique_id)
        THEN StepOutcome("none", AbortFlow("already_configured"), set,
                         entries, FALSE)
        ELSE StepOutcome("none", async_create_entry, set,
                 Append(entries,
                        ConfigEntry(unique_id, flow.username, options)),
                 FALSE)

\* The answers of the remote to the calls of the user step: Supernote.login
\* returns a token, asks for SMS verification (request_sms_code then
\* succeeds or fails) or fails; get_capacity succeeds or fails.
LoginRuns ==
    [login : {"ok"}, token : AccessTokens, sms_request : {"none"},
     capacity : {"ok", "error"}]
      \cup [login : {"sms"}, token : {""}, sms_request : {"ok", "error"},
            capacity : {"none"}]
      \cup [login : {"error"}, token : {""}, sms_request : {"none"},
            capacity : {"none"}]

\* The answers to the calls of the sms step: sms_login returns a token or
\* fails; get_capacity succeeds or fails.
SmsRuns ==
    [login : {"ok"}, token : AccessTokens, sms_request : {"none"},
     capacity : {"ok", "error"}]
      \cup [login : {"error"}, token : {""}, sms_request : {"none"},
            capacity : {"none"}]

\* async_step_user(user_input), user_input holding the username `username`
\* ("" stands for user_input = None).
async_step_user(entries, others, flow, username, run, t) ==
    LET typed   == [flow EXCEPT !.username = username]
        created == async_create_supernote_entry(entries, others, typed,
                                                run.token, run.capacity, t)
        again(errors) ==
            StepOutcome("none", async_show_form("user", errors), typed,
                        entries, FALSE)
    IN  IF username = ""
        THEN StepOutcome("none", async_show_form("user", ""), flow, entries,
                         FALSE)
        ELSE IF run.login = "ok"
        THEN IF created.raised # "none" THEN again("api_error") ELSE created
        ELSE IF run.login = "sms"
        THEN IF run.sms_request # "ok" THEN again("api_error")
             ELSE StepOutcome("none", async_show_form("sms", ""), typed,
                              entries, FALSE)
        ELSE again("api_error")

\* async_step_sms(user_input) with a code typed in.
async_step_sms(entries, others, flow, run, t) ==
    LET created == async_create_supernote_entry(entries, others, flow,
                                                run.token, run.capacity, t)
    IN  IF run.login = "ok" /\ created.raised = "none" THEN created
        ELSE StepOutcome("none", async_show_form("sms", "invalid_auth"), flow,
                         entries, FALSE)

\* async_step_reauth_confirm(user_input) with the form submitted.
async_step_reauth_confirm(entries, others, flow, t) ==
    async_step_user(entries, others, flow, "", CHOOSE run \in LoginRuns : TRUE, t)

\* ConfigEntry.async_start_reauth: nothing when a reauth flow of the entry is
\* in progress; else a flow with source reauth is started, whose first step
\* async_step_reauth shows the form reauth_confirm.
async_start_reauth(fs, entries, entry_id) ==
    IF \E other \in BagToSet(fs) :
          other.source = SOURCE_REAUTH /\ other.entry_id = entry_id
    THEN fs
    ELSE fs (+) SetToBag({NewFlow(SOURCE_REAUTH, "reauth_confirm", entry_id,
                                  entries[entry_id].unique_id)})

\* The flows in progress (a bag of flows) but the flow `flow`.
OtherFlows(fs, flow) == fs (-) SetToBag({flow})

\* The flow manager after a step of a flow: a form keeps the flow in progress
\* at that step, an abort or a created entry ends it.
FlowsAfter(fs, flow, outcome) ==
    IF outcome.result.type = "form"
    THEN OtherFlows(fs, flow)
            (+) SetToBag({[outcome.flow EXCEPT
                              !.step_id = outcome.result.step_id]})
    ELSE OtherFlows(fs, flow)

\* ------------------------------------------- metadata store, as stored

\* str(folder_id): the key of a folder in the stored dict.
StoreKey(folder_id) == IntToStr(folder_id)

StoreKeys == {StoreKey(folder_id) : folder_id \in FolderIds}

\* data.get(key) is None: the dict has no such key.
Missing == [missing |-> TRUE]

\* What Store.async_load() returns before anything was saved (None), read
\* as a dict by `or {}`.
EmptyData == [key \in StoreKeys |-> Missing]

\* FolderContents.to_dict / from_dict: cache_ts is written as text and read
\* back from it.
to_dict(folder) == [folder EXCEPT !.cache_ts = IntToStr(folder.cache_ts)]

\* A variant of from_dict that does not read the timestamp back.
from_dict_epoch(metadata) == [metadata EXCEPT !.cache_ts = 0]

from_dict(metadata) ==
    [metadata EXCEPT !.cache_ts = ParseInt(metadata.cache_ts).value]

\* MetadataStore.get_folder_contents on the loaded data.
MetadataStore_get(data, folder_id) ==
    IF data[StoreKey(folder_id)] = Missing THEN NoEntry
    ELSE from_dict(data[StoreKey(folder_id)])

\* A variant of set_folder_contents that starts from an empty dict.
MetadataStore_set_alone(data, folder) ==
    [EmptyData EXCEPT ![StoreKey(folder.folder_id)] = to_dict(folder)]

\* MetadataStore.set_folder_contents on the loaded data: the data saved.
MetadataStore_set(data, folder) ==
    [data EXCEPT ![StoreKey(folder.folder_id)] = to_dict(folder)]

\* ---------------------------------------- get_folder_contents, by steps

\* Two requests at a time.
Requests == {1, 2}

\* The listings the remote answers a request in flight with.
RaceLists == {<<>>, <<FileDocs>>}

\* A request of get_folder_contents: where it is suspended ("idle" before a
\* call, "get_load" in the load of the lookup, "list" in file_list,
\* "set_load" in the load of set_folder_contents, "write" in async_save,
\* "done" once returned), its
\* folder, the contents it built, what it returned, whether it found a miss
\* and how many listing calls it made.
IdleRequest ==
    [pc |-> "idle", folder_id |-> -1, fresh |-> NoEntry, ret |-> NoEntry,
     missed |-> FALSE, nList |-> 0]

\* A variant of the order of resumption: the last to wait resumes first.
RECURSIVE WakeOrder_reversed(_)
WakeOrder_reversed(waiters) ==
    IF waiters = <<>> THEN <<>>
    ELSE WakeOrder_reversed(Tail(waiters)) \o <<Head(waiters)>>

\* Store.async_load: the callers that wait for a load in progress get its
\* result when it ends and resume in the order they began to wait.
WakeOrder(waiters) == waiters

\* LocalStore.get_folder_contents from the load of the lookup to the next
\* await: a hit returns the entry, a miss calls file_list.
AfterLookup(request, data, t) ==
    LET cached == MetadataStore_get(data, request.folder_id)
    IN  IF cached # NoEntry /\ ~is_expired(cached, t)
        THEN [request EXCEPT !.pc = "done", !.ret = cached]
        ELSE [request EXCEPT !.pc = "list", !.missed = TRUE, !.nList = 1]

\* No data: Store._data is None, no write is in progress, the load in
\* progress has not read yet.
NoData == [none |-> TRUE]

\* helpers.storage.Store as MetadataStore uses it: the file, the data of
\* async_save not yet taken by a write (_data), the request that holds the
\* write lock and the data it writes, the requests that wait for the lock,
\* and the data the load in progress has read.
NewStore ==
    [file |-> EmptyData, pending |-> NoData, writer |-> 0,
     writing |-> NoData, lockWaiters |-> <<>>, read |-> NoData]

\* Store._async_load_data: the data not yet written when there is some,
\* the file otherwise.
async_load(store) ==
    IF store.pending # NoData THEN store.pending ELSE store.file

\* A variant of async_save that drops the data when the write lock is held.
async_save_dropped(store, i, data) ==
    IF store.writer = 0
    THEN [store EXCEPT !.writer = i, !.writing = data, !.pending = NoData]
    ELSE [store EXCEPT !.lockWaiters = Append(@, i)]

\* Store.async_save up to its first suspension: _data is set; with the write
\* lock free the request takes it and _data at once and writes, otherwise it
\* waits for the lock.
async_save(store, i, data) ==
    IF store.writer = 0
    THEN [store EXCEPT !.writer = i, !.writing = data, !.pending = NoData]
    ELSE [store EXCEPT !.pending = data,
                       !.lockWaiters = Append(@, i)]

\* The requests resumed by a load that ends, one after the other: a lookup
\* goes on to its hit or miss; a set_folder_contents replaces its key in the
\* data loaded and saves it.  A load of stored data gives every waiter the
\* same dict, so that a waiter sees the keys the waiters before it have set;
\* a load that returns None gives each its own empty dict.
RECURSIVE Resume(_, _, _, _, _, _)
Resume(waiters, store, loaded, reqs, saved, t) ==
    IF waiters = <<>>
    THEN [store |-> store, requests |-> reqs, saved |-> saved]
    ELSE LET i       == Head(waiters)
             request == reqs[i]
             written == MetadataStore_set(loaded, request.fresh)
         IN  IF request.pc = "get_load"
             THEN Resume(Tail(waiters), store, loaded,
                         [reqs EXCEPT ![i] = AfterLookup(request, loaded, t)],
                         saved, t)
             ELSE Resume(Tail(waiters), async_save(store, i, written),
                         IF loaded = EmptyData THEN loaded ELSE written,
                         [reqs EXCEPT ![i] =
                             [request EXCEPT !.pc = "write",
                                             !.fresh = NoEntry,
                                             !.ret = request.fresh]],
                         [data |-> written, by |-> i,
                          folder_id |-> request.folder_id], t)

\* Store._async_handle_write_data of the requests that get the write lock
\* after a write: one that finds _data taken returns, one that finds data
\* takes it and writes.
RECURSIVE PassLock(_, _)
PassLock(store, reqs) ==
    IF store.lockWaiters = <<>>
    THEN [store |-> [store EXCEPT !.writer = 0, !.writing = NoData],
          requests |-> reqs]
    ELSE LET i == Head(store.lockWaiters)
         IN  IF store.pending = NoData
             THEN PassLock([store EXCEPT !.lockWaiters = Tail(@)],
                           [reqs EXCEPT ![i].pc = "done"])
             ELSE [store |-> [store EXCEPT !.lockWaiters = Tail(@),
                                           !.writer = i,
                                           !.writing = store.pending,
                                           !.pending = NoData],
                   requests |-> reqs]

\* ------------------------------------------- get_note_png, by thread steps

\* A path with no file.
NoFile == [absent |-> TRUE]

\* A file on disk: its bytes, and the requests that hold it open for
\* writing.  Unlinking it leaves those handles on a file no path leads to.
OpenedBy(file, i) ==
    IF file = NoFile THEN [bytes |-> EmptyBytes, handles |-> {i}]
    ELSE [bytes |-> EmptyBytes, handles |-> file.handles \cup {i}]

\* note_file.write(contents) and the close: the bytes go to the file the
\* handle was opened on.
WrittenBy(file, i, bytes) ==
    IF file = NoFile \/ i \notin file.handles THEN file
    ELSE [bytes |-> bytes, handles |-> file.handles \ {i}]

\* The content hashes the listing gives for the note file.
NoteHashes == {Md5(DocA), Md5(DocB)}

\* The bytes the remote serves for the file whose hash the listing gave.
Served(md5) == IF md5 = Md5(DocA) THEN DocA ELSE DocB

\* A request of get_note_png(local_file, 0): the step its thread or
\* task is about to take, the hash of local_file, the bytes of its notebook
\* once it has them, whether _get_notebook_file has returned, which read_png
\* it is in, the error raised or the image returned, what the local copy was
\* when it started and whether it ran at the same time as the other request.
IdleTask ==
    [pc |-> "idle", md5 |-> <<>>, contents |-> EmptyBytes,
     notebook |-> FALSE, reads |-> 0, err |-> "none", img |-> EmptyBytes,
     returned |-> FALSE, local |-> "none", overlap |-> FALSE]

\* The request ends with an error.
Raise(task, err) == [task EXCEPT !.pc = "done", !.err = err]

\* The request ends with the bytes of the image.
Return(task, img) ==
    [task EXCEPT !.pc = "done", !.img = img, !.returned = TRUE]

\* The bytes of a rendered page, as saved.
PngBytes(contents, page_num) == <<Render(contents, page_num)>>

\* The local copy as a request would find it: absent, matching its hash or
\* stale.
LocalState(file, md5) ==
    IF file = NoFile THEN "absent"
    ELSE IF Md5(file.bytes) = md5 THEN "match" ELSE "stale"

\* ------------------------------------------------- pages of a listing

\* SupernoteCloudClient.file_list: FileListRequest(page_no=1, page_size=100)
page_no == 1

page_size == 100

\* The entries of a remote folder that holds n of them: files and folders
\* in turn, newest first.
RemoteChildren(folder_id, n) ==
    [k \in 1..n |->
        [id |-> k + 1, directory_id |-> folder_id, file_name |-> NatToStr(k),
         md5 |-> "", is_folder |-> IF k % 2 = 0 THEN "Y" ELSE "N"]]

\* file/list/query: the page of the entries of the folder that the request
\* asks for by pageNo and pageSize.
remote_page(children, pageNo, pageSize) ==
    SubSeq(children, (pageNo - 1) * pageSize + 1,
           IF pageNo * pageSize < Len(children) THEN pageNo * pageSize
           ELSE Len(children))

\* ----------------------------------------------------------------- state

VARIABLES
    now,          \* the clock
    metadata,     \* the metadata store: folder id -> FolderContents or NoEntry
    reauthFlows,  \* reauth flows in progress at the host
    lastCall,     \* the last request made of the folder cache, and its outcome
    noteFiles,    \* the note files on disk: local path -> None or Some(bytes)
    pngFiles,     \* the page images on disk
    lastNote,     \* the last request made for a note file, and its outcome
    prevNote,     \* what the request before that one was
    listing,      \* a remote listing and what a fetch on an empty cache made of it
    codec,        \* an identifier or a string, and what the codec made of it
    pages,        \* a note name and document, and the notebook built from them
    mediaCache,   \* the metadata store under the media source
    browsed,      \* the last browse request of the media source, and its outcome
    viewed,       \* the last request of the content view, and its outcome
    configEntries, \* the config entries of the integration, by entry id
    flows,        \* the config flows in progress, a bag
    lastFlow,     \* the last step of a config flow, and its outcome
    storeData,    \* the Store of the metadata: file, data to write, lock
    requests,     \* the requests of get_folder_contents in flight
    loadWaiters,  \* the requests that wait for the load in progress
    raceInfo,     \* whether the requests overlapped, the data saved last
    metaLog,      \* the contents last set per folder, the last lookup
    noteDisk,     \* the note file and the page image that threads work on
    noteTasks,    \* the requests of get_note_png, thread step by thread step
    paged         \* a fetch of a remote folder of some size, and its result

folderVars == <<now, metadata, lastCall>>

noteVars == <<noteFiles, pngFiles, lastNote, prevNote>>

mediaVars == <<mediaCache, browsed, viewed>>

flowVars == <<configEntries, flows, lastFlow>>

raceVars == <<storeData, requests, loadWaiters, raceInfo>>

\* The variables of the operations taken step by step.
threadVars == <<noteDisk, noteTasks>>

stepVars == <<raceVars, metaLog, threadVars, paged>>

\* The variables of the store, of the media source on top of it and of the
\* config flows.
storeVarsButSteps ==
    <<now, metadata, reauthFlows, lastCall, noteFiles, pngFiles, lastNote,
      prevNote, mediaVars, flowVars>>

\* The same but for the requests of get_folder_contents taken step by step.
storeVarsButRace == <<storeVarsButSteps, metaLog, threadVars, paged>>

\* The same but for the calls of the metadata store.
storeVarsButMeta ==
    <<storeVarsButSteps, requests, loadWaiters, raceInfo, threadVars, paged>>

\* The same but for the requests of get_note_png taken step by step.
storeVarsButThreads == <<storeVarsButSteps, raceVars, metaLog, paged>>

\* The same but for the fetch of a remote folder of some size.
storeVarsButPaged == <<storeVarsButSteps, raceVars, metaLog, threadVars>>

storeVars == <<now, metadata, reauthFlows, lastCall, noteFiles, pngFiles,
               lastNote, prevNote, mediaVars, flowVars, stepVars>>

pureVars == <<listing, codec, pages>>

\* The variables of the pure operations but one.
except_listing == <<codec, pages>>

except_codec == <<listing, pages>>

except_pages == <<listing, codec>>

vars == <<storeVars, pureVars>>

NoCall ==
    [kind |-> "none", folder_id |-> -1, at |-> -1, reply |-> NoReply,
     pre |-> [f \in FolderIds |-> NoEntry], ret |-> NoEntry, err |-> "none",
     nList |-> 0, nReauth |-> 0, wrote |-> FALSE]

NoNote ==
    [kind |-> "none", fi |-> NoFileInfo, page_num |-> -1, local |-> "none",
     got |-> None, err |-> "none", contents |-> <<>>, names |-> <<>>,
     img |-> NoImage, nDownload |-> 0, nReauth |-> 0, nRender |-> 0]

NoPrev == [first |-> FALSE, fi |-> NoFileInfo, names |-> <<>>,
           hashOk |-> FALSE, rendered |-> FALSE, page_num |-> -1,
           img |-> NoImage]

NoListing ==
    [folder_id |-> -1, files |-> <<>>, ret |-> NoEntry, err |-> "none",
     fetched |-> FALSE]

NoCodec ==
    [op |-> "none", separator |-> "", ident |-> NoIdentifier,
     fields |-> <<>>, text |-> <<>>,
     out |-> [err |-> "none", ident |-> NoIdentifier], back |-> <<>>,
     browse |-> "", root |-> FALSE, media |-> 0,
     parent |-> ReturnedNone, note |-> ReturnedNone, page |-> ReturnedNone]

NoPages ==
    [built |-> FALSE, name |-> <<>>, contents |-> <<>>, names |-> <<>>,
     paths |-> <<>>]

NoBrowse ==
    [called |-> FALSE, item |-> <<>>, err |-> "none", node |-> NoNode,
     asked |-> <<>>, nList |-> 0, nReauth |-> 0]

NoView ==
    [called |-> FALSE, item |-> <<>>, status |-> 0, err |-> "none",
     body |-> NoImage, asked |-> <<>>, nList |-> 0, nReauth |-> 0,
     nDownload |-> 0, nRender |-> 0]

\* A step of a flow as remembered: the kind of step, the source of the flow
\* and its entry, the username, what the login and the request of an SMS code
\* came to, whether the login and get_capacity succeeded, the token
\* returned, the result and whether an entry is reloaded.
Step(kind, flow, username, run, result, reload) ==
    [kind |-> kind, source |-> flow.source, entry_id |-> flow.entry_id,
     username |-> username, login |-> run.login,
     sms_request |-> run.sms_request,
     logged_in |-> (run.login = "ok" /\ run.capacity = "ok"),
     token |-> run.token, result |-> result, reload |-> reload]

NoRun ==
    [login |-> "none", token |-> "", sms_request |-> "none",
     capacity |-> "none"]

NoStep == Step("none", NoFlow, "", NoRun, NoResult, FALSE)

\* Nothing saved yet.
NoSave == [data |-> EmptyData, by |-> 0, folder_id |-> -1]

NoRace == [overlap |-> FALSE, saved |-> NoSave]

NoFetch ==
    [folder_id |-> -1, children |-> <<>>, ret |-> NoEntry,
     cached |-> NoEntry, err |-> "none", fetched |-> FALSE]

\* No contents set, no lookup made.
NoLookups ==
    [lastSet |-> [folder_id \in FolderIds |-> NoEntry],
     got |-> [folder_id |-> -1, ret |-> NoEntry]]

Init ==
    /\ now = 0
    /\ metadata = [f \in FolderIds |-> NoEntry]
    /\ reauthFlows = 0
    /\ lastCall = NoCall
    /\ noteFiles = [path \in LocalPaths |-> None]
    /\ pngFiles = {}
    /\ lastNote = NoNote
    /\ prevNote = NoPrev
    /\ listing = NoListing
    /\ codec = NoCodec
    /\ pages = NoPages
    /\ mediaCache = [f \in MediaIds |-> NoEntry]
    /\ browsed = NoBrowse
    /\ viewed = NoView
    /\ configEntries = <<>>
    /\ flows = EmptyBag
    /\ lastFlow = NoStep
    /\ storeData = NewStore
    /\ requests = [i \in Requests |-> IdleRequest]
    /\ loadWaiters = <<>>
    /\ raceInfo = NoRace
    /\ metaLog = NoLookups
    /\ noteDisk = [file |-> NoFile, image |-> NoFile]
    /\ noteTasks = [i \in Requests |-> IdleTask]
    /\ paged = NoFetch

\* Time passes.
Tick ==
    /\ now < MaxTime
    /\ now' = now + 1
    /\ UNCHANGED <<metadata, reauthFlows, lastCall, noteVars, mediaVars, flowVars, pureVars,
                   stepVars>>

\* A caller awaits store.get_folder_contents(folder_id).
GetFolderContents ==
    \E folder_id \in FolderIds, reply \in ListReplies :
        LET r == get_folder_contents(metadata, folder_id, now, reply) IN
        /\ metadata' = r.md
        /\ reauthFlows' = start_reauth(reauthFlows, r.nReauth)
        /\ lastCall' =
             [kind |-> "list", folder_id |-> folder_id, at |-> now,
              reply |-> IF r.nList > 0 THEN reply ELSE NoReply,
              pre |-> metadata, ret |-> r.ret, err |-> r.err,
              nList |-> r.nList, nReauth |-> r.nReauth, wrote |-> r.wrote]
        /\ UNCHANGED <<now, noteVars, mediaVars, flowVars, pureVars,
                   stepVars>>

\* The media_id_path of the FOLDER identifiers browsed: the root, and a
\* folder named together with its parent.
BrowsePaths ==
    {<<0>>} \cup {<<p, c>> : p \in FolderIds, c \in FolderIds \ {0}}

\* The host browses a FOLDER identifier.
BrowseFolder ==
    \E path \in BrowsePaths, reply1 \in BrowseReplies, reply2 \in BrowseReplies :
        LET r == browse_folder(metadata, path, now, reply1, reply2) IN
        /\ metadata' = r.md
        /\ reauthFlows' = start_reauth(reauthFlows, r.nReauth)
        /\ lastCall' =
             [kind |-> "browse", folder_id |-> path[Len(path)], at |-> now,
              reply |-> NoReply,
              pre |-> metadata, ret |-> r.ret, err |-> r.err,
              nList |-> r.nList, nReauth |-> r.nReauth, wrote |-> r.wrote]
        /\ UNCHANGED <<now, noteVars, mediaVars, flowVars, pureVars,
                   stepVars>>

Next == Tick \/ GetFolderContents \/ BrowseFolder

Spec == Init /\ [][Next]_vars

\* What a request for a note file leaves behind: the disk, the reauth flows
\* and the record of the request.
NoteRequest(kind, fi, page_num, r) ==
    /\ noteFiles' = r.files
    /\ pngFiles' = r.images
    /\ reauthFlows' = start_reauth(reauthFlows, r.nReauth)
    /\ lastNote' =
         [kind |-> kind, fi |-> fi, page_num |-> page_num,
          local |-> r.local,
          got |-> r.got,
          err |-> r.err, contents |-> r.contents, names |-> r.names,
          img |-> r.img, nDownload |-> r.nDownload, nReauth |-> r.nReauth,
          nRender |-> r.nRender]
    /\ prevNote' =
         IF lastNote.kind = "names" /\ lastNote.err = "none"
               /\ lastNote.local = "absent" /\ lastNote.nDownload = 1
         THEN [NoPrev EXCEPT !.first = TRUE, !.fi = lastNote.fi,
                  !.names = lastNote.names,
                  !.hashOk = (Md5(lastNote.contents) = lastNote.fi.md5)]
         ELSE IF lastNote.kind = "png" /\ lastNote.err = "none"
                   /\ lastNote.nRender = 1
         THEN [NoPrev EXCEPT !.rendered = TRUE, !.fi = lastNote.fi,
                  !.names = lastNote.names,
                  !.hashOk = (Md5(lastNote.contents) = lastNote.fi.md5),
                  !.page_num = lastNote.page_num, !.img = lastNote.img]
         ELSE NoPrev
    /\ UNCHANGED <<folderVars, mediaVars, flowVars, pureVars,
                   stepVars>>

\* The ways a download goes: answered by `reply` and not cancelled,
\* cancelled while file_download is awaited (the answer never arrives), or
\* cancelled while the write of the bytes it returned is awaited.
DownloadRuns ==
    [reply : DownloadReplies, cancel : {"none"}]
      \cup [reply : {NoReply}, cancel : {"download"}]
      \cup [reply : {r \in DownloadReplies : r.json}, cancel : {"write"}]

\* A caller awaits store.get_note_page_names(local_file).
GetNotePageNames ==
    \E fi \in FileInfos, run \in DownloadRuns :
        NoteRequest("names", fi, -1,
            get_note_page_names(noteFiles, pngFiles, fi, run.reply,
                                run.cancel))

\* A caller awaits store.get_note_png(local_file, page_num).
GetNotePng ==
    \E fi \in FileInfos, page_num \in -1..MaxPageNum, run \in DownloadRuns :
        NoteRequest("png", fi, page_num,
            get_note_png(noteFiles, pngFiles, fi, page_num, run.reply,
                         run.cancel))

NextNote == GetNotePageNames \/ GetNotePng

\* The requests for the pages of a note file whose download, when one is
\* made, is answered with bytes.
RenderRuns ==
    [fi : {fi \in FileInfos : fi.name = NoteName},
     page_num : 0..MaxPageNum,
     reply : {r \in DownloadReplies : r.json}]

\* A caller awaits store.get_note_png(local_file, page_num) for a page of a
\* note file.
GetNotePngOfNote ==
    \E run \in RenderRuns :
        NoteRequest("png", run.fi, run.page_num,
            get_note_png(noteFiles, pngFiles, run.fi, run.page_num,
                         run.reply, "none"))

\* A caller awaits store.get_note_png(local_file, page_num) and the
\* conversion of the page fails.
GetNotePngRenderFails ==
    \E run \in RenderRuns :
        /\ get_note_png(noteFiles, pngFiles, run.fi, run.page_num,
                        run.reply, "none").nRender = 1
        /\ NoteRequest("png", run.fi, run.page_num,
               render_fails(noteFiles, pngFiles, run.fi, run.page_num,
                            run.reply, "none"))

NextRender == GetNotePngOfNote \/ GetNotePngRenderFails

SpecRender == Init /\ [][NextRender]_vars

SpecNote == Init /\ [][NextNote]_vars

\* get_folder_contents(folder_id) on an empty metadata store, the remote
\* answering with the listing `files`.
FetchListing ==
    \E folder_id \in FolderIds, files \in Listings :
        LET r == get_folder_contents([f \in FolderIds |-> NoEntry],
                     folder_id, now,
                     [transport |-> "ok", status |-> 200, json |-> TRUE,
                      body |-> files])
        IN  /\ listing' = [folder_id |-> folder_id, files |-> files,
                           ret |-> r.ret, err |-> r.err, fetched |-> TRUE]
            /\ UNCHANGED <<storeVars, except_listing>>

NextListing == FetchListing

SpecListing == Init /\ [][NextListing]_vars

\* A notebook is built from the document of a note file in folder 0.
BuildNotebook ==
    /\ ~pages.built
    /\ \E note_name \in NoteNames, contents \in {DocA, DocB} :
        LET nb == NotebookFile(contents, note_name, <<0, note_name>>)
        IN  /\ pages' = [built |-> TRUE, name |-> note_name,
                         contents |-> contents, names |-> nb.names,
                         paths |-> nb.paths]
            /\ UNCHANGED <<storeVars, except_pages>>

NextPages == BuildNotebook

SpecPages == Init /\ [][NextPages]_vars

\* The codec is a pure function: each behaviour applies it to one input.
\* An identifier is serialized with one of the separators (as_string for
\* the browse form, encode for the URL form) and the string parsed back.
EncodeIdentifier ==
    /\ codec.op = "none"
    /\ \E x \in Identifiers, separator \in Separators :
        LET text == IF separator = ":" THEN encode(x)
                    ELSE as_string(x, separator)
        IN  /\ codec' = [NoCodec EXCEPT !.op = "encode",
                            !.separator = separator, !.ident = x,
                            !.text = text,
                            !.out = IF separator = ":" THEN decode(text)
                                    ELSE of(text, separator)]
            /\ UNCHANGED <<storeVars, except_codec>>

\* A string is parsed with one of the separators and, when it parses,
\* serialized again; the same string is also browsed.
DecodeIdentifier ==
    /\ codec.op = "none"
    /\ \E fields \in FieldLists, separator \in Separators :
        LET text == Join(fields, separator)
            out  == IF separator = ":" THEN decode(text)
                    ELSE of(text, separator)
        IN  /\ codec' = [NoCodec EXCEPT !.op = "decode",
                            !.separator = separator, !.fields = fields,
                            !.text = text, !.out = out,
                            !.back = IF out.err # "none" THEN <<>>
                                     ELSE IF separator = ":"
                                     THEN encode(out.ident)
                                     ELSE as_string(out.ident, separator),
                            !.browse = browse_parse(text)]
            /\ UNCHANGED <<storeVars, except_codec>>

\* The accessors of an identifier are read.
ReadIdentifier ==
    /\ codec.op = "none"
    /\ \E x \in Identifiers :
        /\ codec' = [NoCodec EXCEPT !.op = "read", !.ident = x,
                        !.root = is_root(x), !.media = media_id(x),
                        !.parent = parent_folder_id(x),
                        !.note = note_file_id(x), !.page = page_id(x)]
        /\ UNCHANGED <<storeVars, except_codec>>

NextIdentifier == EncodeIdentifier \/ DecodeIdentifier \/ ReadIdentifier

SpecIdentifier == Init /\ [][NextIdentifier]_vars

\* The host browses the media source.
BrowseMedia ==
    \E item \in BrowseItems, remote \in MediaRemotes :
        \E r \in {async_browse_media(mediaCache, item, now, remote)} :
        /\ mediaCache' = r.md
        /\ reauthFlows' = start_reauth(reauthFlows, r.nReauth)
        /\ browsed' =
             [called |-> TRUE, item |-> item, err |-> r.err,
              node |-> r.node, asked |-> r.asked, nList |-> r.nList,
              nReauth |-> r.nReauth]
        /\ UNCHANGED <<folderVars, noteVars, viewed, flowVars, pureVars,
                   stepVars>>

NextBrowse == BrowseMedia

SpecBrowse == Init /\ [][NextBrowse]_vars

\* A client requests /api/supernote_cloud/item_content/{item_identifier}.
ItemContent ==
    \E item \in ViewItems, remote \in ViewRemotes,
       reply \in DownloadReplies :
        \E r \in {item_content_get(mediaCache, noteFiles, pngFiles, item, now,
                                   remote, reply)} :
        /\ mediaCache' = r.md
        /\ noteFiles' = r.files
        /\ pngFiles' = r.images
        /\ reauthFlows' = start_reauth(reauthFlows, r.nReauth)
        /\ viewed' =
             [called |-> TRUE, item |-> item, status |-> r.status,
              err |-> r.err, body |-> r.body, asked |-> r.asked,
              nList |-> r.nList, nReauth |-> r.nReauth,
              nDownload |-> r.nDownload, nRender |-> r.nRender]
        /\ UNCHANGED <<folderVars, lastNote, prevNote, browsed, flowVars,
                     pureVars,
                   stepVars>>

NextView == ItemContent

SpecView == Init /\ [][NextView]_vars

\* What a step of the flow `flow` leaves behind.
FlowStep(kind, flow, username, run, outcome) ==
    /\ Len(outcome.entries) <= MaxEntries
    /\ configEntries' = outcome.entries
    /\ flows' = FlowsAfter(flows, flow, outcome)
    /\ lastFlow' = Step(kind, flow, username, run, outcome.result,
                        outcome.reload)
    /\ UNCHANGED <<folderVars, reauthFlows, noteVars, mediaVars, pureVars,
                   stepVars>>

\* The user starts a flow: async_init with source user shows the form user.
InitUserFlow ==
    /\ BagCardinality(flows) < MaxFlows
    /\ flows' = flows (+) SetToBag({NewFlow(SOURCE_USER, "user", 0, "")})
    /\ lastFlow' = Step("init", NewFlow(SOURCE_USER, "user", 0, ""), "",
                        NoRun, async_show_form("user", ""), FALSE)
    /\ UNCHANGED <<folderVars, reauthFlows, noteVars, mediaVars,
                   configEntries, pureVars,
                   stepVars>>

\* Reauthentication of an entry is started (entry.async_start_reauth).
StartReauth ==
    \E entry_id \in 1..Len(configEntries) :
        /\ BagCardinality(flows) < MaxFlows
        /\ flows' = async_start_reauth(flows, configEntries, entry_id)
        /\ lastFlow' =
             Step("start_reauth",
                  NewFlow(SOURCE_REAUTH, "reauth_confirm", entry_id,
                          configEntries[entry_id].unique_id),
                  "", NoRun, async_show_form("reauth_confirm", ""), FALSE)
        /\ UNCHANGED <<folderVars, reauthFlows, noteVars, mediaVars,
                       configEntries, pureVars,
                   stepVars>>

\* The user submits the form reauth_confirm of a flow.
ConfirmReauth ==
    \E flow \in BagToSet(flows) :
        /\ flow.step_id = "reauth_confirm"
        /\ FlowStep("confirm", flow, "", NoRun,
               async_step_reauth_confirm(configEntries,
                                         OtherFlows(flows, flow), flow, now))

\* The user submits the form user of a flow.
SubmitUser ==
    \E flow \in BagToSet(flows), username \in Usernames, run \in LoginRuns :
        /\ flow.step_id = "user"
        /\ FlowStep("user", flow, username, run,
               async_step_user(configEntries, OtherFlows(flows, flow), flow,
                               username, run, now))

\* The user submits the form sms of a flow.
SubmitSms ==
    \E flow \in BagToSet(flows), run \in SmsRuns :
        /\ flow.step_id = "sms"
        /\ FlowStep("sms", flow, flow.username, run,
               async_step_sms(configEntries, OtherFlows(flows, flow), flow,
                              run, now))

NextFlow ==
    InitUserFlow \/ StartReauth \/ ConfirmReauth \/ SubmitUser \/ SubmitSms

SpecFlow == Init /\ [][NextFlow]_vars

\* A request is between its call and its return.
InFlight(request) == request.pc \notin {"idle", "done"}

\* A caller awaits store.get_folder_contents(folder_id): the lookup awaits the
\* load of the Store.
StartRequest ==
    \E i \in Requests, folder_id \in FolderIds :
        /\ ~InFlight(requests[i])
        /\ requests' = [requests EXCEPT ![i] =
               [IdleRequest EXCEPT !.pc = "get_load",
                                   !.folder_id = folder_id]]
        /\ loadWaiters' = Append(loadWaiters, i)
        /\ raceInfo' =
             [raceInfo EXCEPT
                !.overlap = \E j \in Requests \ {i} : InFlight(requests[j])]
        /\ UNCHANGED <<storeVarsButRace, storeData, pureVars>>

\* The load in progress reads the data of the Store.
LoadRead ==
    /\ loadWaiters # <<>>
    /\ storeData.read = NoData
    /\ storeData' = [storeData EXCEPT !.read = async_load(storeData)]
    /\ UNCHANGED <<storeVarsButRace, requests, loadWaiters, raceInfo,
                   pureVars>>

\* The load in progress ends and the requests that wait for it resume.
LoadDone ==
    /\ storeData.read # NoData
    /\ \E r \in {Resume(WakeOrder(loadWaiters),
                        [storeData EXCEPT !.read = NoData], storeData.read,
                        requests, raceInfo.saved, now)} :
          /\ storeData' = r.store
          /\ requests' = r.requests
          /\ raceInfo' = [raceInfo EXCEPT !.saved = r.saved]
    /\ loadWaiters' = <<>>
    /\ UNCHANGED <<storeVarsButRace, pureVars>>

\* file_list returns to a request: it builds the contents, and
\* set_folder_contents awaits the load of the Store.
ListDone ==
    \E i \in Requests, files \in RaceLists :
        /\ requests[i].pc = "list"
        /\ requests' = [requests EXCEPT ![i] =
               [@ EXCEPT !.pc = "set_load",
                         !.fresh = NewFolderContents(requests[i].folder_id,
                                                     files, now)]]
        /\ loadWaiters' = Append(loadWaiters, i)
        /\ UNCHANGED <<storeVarsButRace, storeData, raceInfo, pureVars>>

\* The write in progress ends: the file holds the data written, the request
\* returns, and the write lock passes on.
WriteDone ==
    /\ storeData.writer # 0
    /\ \E r \in {PassLock([storeData EXCEPT !.file = storeData.writing],
                          [requests EXCEPT ![storeData.writer].pc = "done"])} :
          /\ storeData' = r.store
          /\ requests' = r.requests
    /\ UNCHANGED <<storeVarsButRace, loadWaiters, raceInfo, pureVars>>

NextRace ==
    Tick \/ StartRequest \/ LoadRead \/ LoadDone \/ ListDone \/ WriteDone

SpecRace == Init /\ [][NextRace]_vars

\* The contents a caller can hand to set_folder_contents.
SetContents ==
    {NewFolderContents(folder_id, files, t) :
        folder_id \in FolderIds, files \in RaceLists, t \in 0..now}

\* await metadata_store.set_folder_contents(folder), alone: the data is
\* loaded, the key replaced, and the data saved and written.
MetaSet ==
    \E folder \in SetContents :
        /\ storeData' =
             [storeData EXCEPT
                !.file = MetadataStore_set(async_load(storeData), folder)]
        /\ metaLog' = [lastSet |-> [metaLog.lastSet EXCEPT
                                       ![folder.folder_id] = folder],
                       got |-> NoLookups.got]
        /\ UNCHANGED <<storeVarsButMeta, pureVars>>

\* await metadata_store.get_folder_contents(folder_id), alone.
MetaGet ==
    \E folder_id \in FolderIds :
        /\ metaLog' =
             [metaLog EXCEPT
                !.got = [folder_id |-> folder_id,
                         ret |-> MetadataStore_get(async_load(storeData),
                                                   folder_id)]]
        /\ UNCHANGED <<storeVarsButMeta, storeData, pureVars>>

NextMeta == Tick \/ MetaSet \/ MetaGet

SpecMeta == Init /\ [][NextMeta]_vars

\* A request is between its call and its end.
Running(task) == task.pc \notin {"idle", "done"}

\* A caller awaits store.get_note_png(local_file, 0), for the first page:
\* _get_or_invalidate starts in a thread.
NoteStart ==
    \E i \in Requests, md5 \in NoteHashes :
        LET others == \E j \in Requests \ {i} : Running(noteTasks[j])
        IN  /\ ~Running(noteTasks[i])
            /\ noteTasks' =
                 [j \in Requests |->
                    IF j = i
                    THEN [IdleTask EXCEPT
                            !.pc = "exists", !.md5 = md5,
                            !.local = LocalState(noteDisk.file, md5),
                            !.overlap = others]
                    ELSE [noteTasks[j] EXCEPT
                            !.overlap = @ \/ Running(noteTasks[j])]]
            /\ UNCHANGED <<storeVarsButThreads, noteDisk, pureVars>>

\* _get_or_invalidate: local_path.exists()
NoteExists ==
    \E i \in Requests :
        /\ noteTasks[i].pc = "exists"
        /\ noteTasks' = [noteTasks EXCEPT ![i].pc =
               IF noteDisk.file = NoFile THEN "download" ELSE "open"]
        /\ UNCHANGED <<storeVarsButThreads, noteDisk, pureVars>>

\* _get_or_invalidate: the file is opened and read and its md5 compared; a
\* local copy that matches is the notebook.
NoteOpen ==
    \E i \in Requests :
        /\ noteTasks[i].pc = "open"
        /\ noteTasks' = [noteTasks EXCEPT ![i] =
               IF noteDisk.file = NoFile
               THEN Raise(@, "FileNotFoundError")
               ELSE IF Md5(noteDisk.file.bytes) = @.md5
               THEN [@ EXCEPT !.pc = "read_exists", !.reads = 1,
                              !.contents = noteDisk.file.bytes,
                              !.notebook = TRUE]
               ELSE [@ EXCEPT !.pc = "unlink"]]
        /\ UNCHANGED <<storeVarsButThreads, noteDisk, pureVars>>

\* _get_or_invalidate: local_path.unlink()
NoteUnlink ==
    \E i \in Requests :
        /\ noteTasks[i].pc = "unlink"
        /\ noteTasks' = [noteTasks EXCEPT ![i] =
               IF noteDisk.file = NoFile
               THEN Raise(@, "FileNotFoundError")
               ELSE [@ EXCEPT !.pc = "download"]]
        /\ noteDisk' = [noteDisk EXCEPT !.file = NoFile]
        /\ UNCHANGED <<storeVarsButThreads, pureVars>>

\* await self._client.file_download(file_id), which succeeds.
NoteDownload ==
    \E i \in Requests :
        /\ noteTasks[i].pc = "download"
        /\ noteTasks' = [noteTasks EXCEPT ![i] =
               [@ EXCEPT !.pc = "write_open",
                         !.contents = Served(noteTasks[i].md5)]]
        /\ UNCHANGED <<storeVarsButThreads, noteDisk, pureVars>>

\* _write_contents: local_path.open("wb") creates the file or empties it.
NoteWriteOpen ==
    \E i \in Requests :
        /\ noteTasks[i].pc = "write_open"
        /\ noteDisk' = [noteDisk EXCEPT !.file = OpenedBy(@, i)]
        /\ noteTasks' = [noteTasks EXCEPT ![i].pc = "write"]
        /\ UNCHANGED <<storeVarsButThreads, pureVars>>

\* _write_contents: note_file.write(contents); then the notebook is built
\* and clear_png_cache starts.
NoteWrite ==
    \E i \in Requests :
        /\ noteTasks[i].pc = "write"
        /\ noteDisk' = [noteDisk EXCEPT
               !.file = WrittenBy(@, i, noteTasks[i].contents)]
        /\ noteTasks' = [noteTasks EXCEPT ![i].pc = "clear_exists"]
        /\ UNCHANGED <<storeVarsButThreads, pureVars>>

\* _clear_pngs: png_path.exists() for the page; with no image
\* _get_notebook_file returns.
NoteClearExists ==
    \E i \in Requests :
        /\ noteTasks[i].pc = "clear_exists"
        /\ noteTasks' = [noteTasks EXCEPT ![i] =
               IF noteDisk.image = NoFile
               THEN [@ EXCEPT !.pc = "read_exists", !.reads = 1,
                              !.notebook = TRUE]
               ELSE [@ EXCEPT !.pc = "clear_unlink"]]
        /\ UNCHANGED <<storeVarsButThreads, noteDisk, pureVars>>

\* _clear_pngs: png_path.unlink(); then _get_notebook_file returns.
NoteClearUnlink ==
    \E i \in Requests :
        /\ noteTasks[i].pc = "clear_unlink"
        /\ noteTasks' = [noteTasks EXCEPT ![i] =
               IF noteDisk.image = NoFile
               THEN Raise(@, "FileNotFoundError")
               ELSE [@ EXCEPT !.pc = "read_exists", !.reads = 1,
                              !.notebook = TRUE]]
        /\ noteDisk' = [noteDisk EXCEPT !.image = NoFile]
        /\ UNCHANGED <<storeVarsButThreads, pureVars>>

\* _read_png: local_png_path.exists().  With no image the first read_png
\* returns None and the page is rendered; the second makes get_note_png
\* raise ValueError("Failed to convert note to PNG").
NoteReadExists ==
    \E i \in Requests :
        /\ noteTasks[i].pc = "read_exists"
        /\ noteTasks' = [noteTasks EXCEPT ![i] =
               IF noteDisk.image # NoFile THEN [@ EXCEPT !.pc = "read_open"]
               ELSE IF @.reads = 1 THEN [@ EXCEPT !.pc = "save_open"]
               ELSE Raise(@, "ValueError")]
        /\ UNCHANGED <<storeVarsButThreads, noteDisk, pureVars>>

\* _read_png: the image is opened and read.  The first read_png returns
\* what it read unless it is None; the second raises ValueError on no bytes.
NoteReadOpen ==
    \E i \in Requests :
        /\ noteTasks[i].pc = "read_open"
        /\ noteTasks' = [noteTasks EXCEPT ![i] =
               IF noteDisk.image = NoFile
               THEN Raise(@, "FileNotFoundError")
               ELSE IF @.reads = 2 /\ noteDisk.image.bytes = EmptyBytes
               THEN Raise(@, "ValueError")
               ELSE Return(@, noteDisk.image.bytes)]
        /\ UNCHANGED <<storeVarsButThreads, noteDisk, pureVars>>

\* _write_png: the page is converted and content.save opens the image file.
NoteSaveOpen ==
    \E i \in Requests :
        /\ noteTasks[i].pc = "save_open"
        /\ noteDisk' = [noteDisk EXCEPT !.image = OpenedBy(@, i)]
        /\ noteTasks' = [noteTasks EXCEPT ![i].pc = "save"]
        /\ UNCHANGED <<storeVarsButThreads, pureVars>>

\* _write_png: content.save writes the image; then the second read_png.
NoteSave ==
    \E i \in Requests :
        /\ noteTasks[i].pc = "save"
        /\ noteDisk' = [noteDisk EXCEPT
               !.image = WrittenBy(@, i, PngBytes(noteTasks[i].contents, 0))]
        /\ noteTasks' = [noteTasks EXCEPT ![i] =
               [@ EXCEPT !.pc = "read_exists", !.reads = 2]]
        /\ UNCHANGED <<storeVarsButThreads, pureVars>>

NextThreads ==
    \/ NoteStart \/ NoteExists \/ NoteOpen \/ NoteUnlink \/ NoteDownload
    \/ NoteWriteOpen \/ NoteWrite \/ NoteClearExists \/ NoteClearUnlink
    \/ NoteReadExists \/ NoteReadOpen \/ NoteSaveOpen \/ NoteSave

SpecThreads == Init /\ [][NextThreads]_vars

\* get_folder_contents(folder_id) on an empty metadata store, the remote
\* folder holding the entries `children`.
FetchPaged ==
    \E folder_id \in FolderIds, n \in 0..MaxChildren :
        \E r \in {get_folder_contents([f \in FolderIds |-> NoEntry],
                     folder_id, now,
                     [transport |-> "ok", status |-> 200, json |-> TRUE,
                      body |-> remote_page(RemoteChildren(folder_id, n),
                                           page_no, page_size)])} :
            /\ paged' = [folder_id |-> folder_id,
                         children |-> RemoteChildren(folder_id, n),
                         ret |-> r.ret, cached |-> r.md[folder_id],
                         err |-> r.err, fetched |-> TRUE]
            /\ UNCHANGED <<storeVarsButPaged, pureVars>>

NextPaged == FetchPaged

SpecPaged == Init /\ [][NextPaged]_vars

\* ------------------------------------------------- folder cache: claims

Age(fc, t) == t - fc.cache_ts

ListedFolder == lastCall.folder_id

PreEntry == lastCall.pre[ListedFolder]

\* The last request was a get_folder_contents call that found a cache entry
\* not older than the TTL.
FreshEntryCall ==
    /\ lastCall.kind = "list"
    /\ PreEntry # NoEntry
    /\ Age(PreEntry, lastCall.at) <= MAX_CACHE_LIFETIME

\* The last request was a get_folder_contents call that found no cache entry
\* or one older than the TTL.
StaleEntryCall ==
    /\ lastCall.kind = "list"
    /\ PreEntry = NoEntry \/ Age(PreEntry, lastCall.at) > MAX_CACHE_LIFETIME

HitReturnsEntry ==
    FreshEntryCall =>
        /\ lastCall.err = "none"
        /\ lastCall.ret = PreEntry
        /\ lastCall.nList = 0
        /\ ~lastCall.wrote
        /\ metadata = lastCall.pre

\* A get_folder_contents call that follows a successful one for the same
\* folder, inside the TTL window of what that one returned, returns the same.
TwiceSame ==
    ( /\ lastCall.kind = "list" /\ lastCall.err = "none"
      /\ lastCall'.kind = "list"
      /\ lastCall'.folder_id = lastCall.folder_id
      /\ Age(lastCall.ret, lastCall'.at) <= MAX_CACHE_LIFETIME )
    => lastCall'.ret = lastCall.ret /\ lastCall'.err = "none"

\* C1: get_folder_contents(f) with a cache entry for f whose age is not
\* greater than the TTL returns that entry unchanged, makes no remote listing
\* call and does not write the cache; two calls inside the TTL window return
\* the same value.
C1_CacheHit == []HitReturnsEntry /\ [][TwiceSame]_vars

\* A call served an entry exactly MAX_CACHE_LIFETIME old from the cache.
C1_Witness ==
    /\ FreshEntryCall
    /\ Age(PreEntry, lastCall.at) = MAX_CACHE_LIFETIME
    /\ lastCall.nList = 0
    /\ lastCall.ret = PreEntry

\* C2: get_folder_contents(f) with no cache entry for f, or one older than
\* the TTL, and a remote listing that succeeds makes exactly one remote
\* listing call, overwrites the entry of f (and no other) with a fresh
\* FolderContents stamped with the current time, and returns what it stored,
\* so that a call for f that follows at once is a cache hit.
C2_CacheMiss ==
    (StaleEntryCall /\ lastCall.err = "none") =>
        /\ lastCall.nList = 1
        /\ lastCall.wrote
        /\ lastCall.ret.folder_id = ListedFolder
        /\ lastCall.ret.cache_ts = lastCall.at
        /\ metadata[ListedFolder] = lastCall.ret
        /\ \A g \in FolderIds \ {ListedFolder} : metadata[g] = lastCall.pre[g]
        /\ \A reply \in ListReplies :
              LET again == get_folder_contents(metadata, ListedFolder,
                                               lastCall.at, reply)
              IN  again.nList = 0 /\ again.ret = lastCall.ret

\* An entry older than the TTL was replaced by a fetch.
C2_Witness ==
    /\ StaleEntryCall
    /\ PreEntry # NoEntry
    /\ lastCall.err = "none"
    /\ lastCall.nList = 1
    /\ metadata[ListedFolder] # PreEntry

\* C3: when the listing call of get_folder_contents fails with Unauthorized,
\* reauth_cb is called exactly once, the listing is not retried, the error
\* propagates and the metadata cache is unchanged; a browse request failing
\* this way, at its first or at its second listing, calls reauth_cb once and
\* leaves exactly one reauth flow pending.
C3_Unauthorized ==
    /\ (lastCall.kind = "list" /\ lastCall.err = "Unauthorized") =>
          /\ lastCall.nReauth = 1
          /\ lastCall.nList = 1
          /\ lastCall.ret = NoEntry
          /\ ~lastCall.wrote
          /\ metadata = lastCall.pre
          /\ reauthFlows = 1
    /\ (lastCall.kind = "browse" /\ lastCall.err = "Unauthorized") =>
          /\ lastCall.nReauth = 1
          /\ lastCall.nList \in {1, 2}
          /\ reauthFlows = 1
    /\ (lastCall.kind # "none" /\ lastCall.reply.transport = "ok"
            /\ lastCall.reply.status = 401) =>
          lastCall.err = "Unauthorized"

\* A browse request listed the parent and then failed at the folder itself.
C3_Witness ==
    /\ lastCall.kind = "browse"
    /\ lastCall.err = "Unauthorized"
    /\ lastCall.nList = 2
    /\ lastCall.nReauth = 1
    /\ reauthFlows = 1

\* C4: the remote client raises Unauthorized for a 401 and for a 403 (so the
\* store calls reauth_cb for both) and ApiError for every other failing
\* status.
C4_StatusToError ==
    (lastCall.kind = "list" /\ lastCall.reply.transport = "ok") =>
        /\ lastCall.reply.status \in {401, 403} =>
              lastCall.err = "Unauthorized" /\ lastCall.nReauth = 1
        /\ (lastCall.reply.status >= 400
               /\ lastCall.reply.status \notin {401, 403}) =>
              lastCall.err = "ApiError"

\* C5: when the listing call fails with an ApiError that is not Unauthorized,
\* get_folder_contents raises it without a retry, does not call reauth_cb,
\* returns no (expired) cache entry in its place and leaves the metadata
\* cache as it was.
C5_ApiError ==
    (lastCall.kind = "list" /\ lastCall.err = "ApiError") =>
        /\ lastCall.nList = 1
        /\ lastCall.nReauth = 0
        /\ lastCall.ret = NoEntry
        /\ ~lastCall.wrote
        /\ metadata = lastCall.pre

\* A listing failed with ApiError while an expired entry was in the cache.
C5_Witness ==
    /\ lastCall.kind = "list"
    /\ lastCall.err = "ApiError"
    /\ PreEntry # NoEntry
    /\ metadata[ListedFolder] = PreEntry
    /\ reauthFlows = 0

\* --------------------------------------------------- note files: claims

NotePath == get_local_file_path(lastNote.fi)

\* The directory part of an image path: that of the images of one note file.
ImageDir(path) == <<path[1], path[2]>>

NoteImageDir(fi) == <<fi.parent_folder_id, Stem(fi.name)>>

\* C6: when a local file exists at the path of file_info and the md5 of its
\* bytes is file_info.md5, get_note_page_names makes no download call and
\* neither deletes nor rewrites the local file or the page images.
C6_LocalCopyReuse ==
    [][ (lastNote'.kind = "names" /\ lastNote'.local = "match") =>
            /\ lastNote'.nDownload = 0
            /\ noteFiles' = noteFiles
            /\ pngFiles' = pngFiles ]_vars

\* C7: when the local copy has another md5 than file_info.md5 and the
\* download succeeds, then once get_note_page_names has returned the stale
\* copy is replaced by the downloaded bytes, one download was made, and no
\* page image that was on disk for that file is left, whatever page id it
\* was rendered for.
C7_Invalidation ==
    [][ (lastNote'.kind = "names" /\ lastNote'.local = "stale"
            /\ lastNote'.err = "none") =>
            /\ lastNote'.nDownload = 1
            /\ noteFiles'[get_local_file_path(lastNote'.fi)] = lastNote'.got
            /\ \A e \in pngFiles :
                  ImageDir(e.path) = NoteImageDir(lastNote'.fi) =>
                      ~png_exists(pngFiles', e.path) ]_vars

\* C8: get_note_png never returns an image rendered from other bytes than
\* those the local path holds, also after a request that downloaded them was
\* cancelled between writing the file and clearing the page images.
C8_NoStaleImage ==
    (lastNote.kind = "png" /\ lastNote.err = "none") =>
        /\ noteFiles[NotePath] # None
        /\ lastNote.img = Render(noteFiles[NotePath][1], lastNote.page_num)

\* The last request downloaded bytes whose md5 is not file_info.md5 and was
\* not cancelled.
MismatchedDownload ==
    /\ lastNote.got # None
    /\ Md5(lastNote.got[1]) # lastNote.fi.md5
    /\ lastNote.err # "Cancelled"

\* C9: when the md5 of the downloaded bytes differs from file_info.md5 the
\* request does not fail for it: the bytes are written to the local path and
\* the notebook (page names, page images) is built from them; the only
\* failure left is that of bytes that are no notebook.
C9_HashMismatchTolerated ==
    MismatchedDownload =>
        /\ noteFiles[NotePath] = lastNote.got
        /\ lastNote.err \in {"none", "ValueError", "MalformedDocument"}
        /\ lastNote.err = "MalformedDocument" <=> ~Parses(lastNote.got[1])
        /\ Parses(lastNote.got[1]) =>
              /\ lastNote.contents = lastNote.got[1]
              /\ lastNote.names = page_names(lastNote.fi.name, lastNote.got[1])
        /\ (lastNote.kind = "png" /\ lastNote.err = "none") =>
              lastNote.img = Render(lastNote.got[1], lastNote.page_num)

\* A page image was served from downloaded bytes of another md5.
C9_Witness ==
    /\ MismatchedDownload
    /\ lastNote.fi.md5 = Md5(DocA)
    /\ lastNote.got = Some(DocB)
    /\ lastNote.kind = "png"
    /\ lastNote.err = "none"
    /\ lastNote.img.src = DocB

\* C10 as stated: after a first get_note_page_names call for a file with no
\* local copy has made one download, a second call (get_note_page_names or
\* get_note_png) with the same file_info makes no download and yields the
\* same page names.
C10_SecondCallNoDownload ==
    (prevNote.first /\ lastNote.fi = prevNote.fi) =>
        /\ lastNote.nDownload = 0
        /\ lastNote.names = prevNote.names

\* C10 amended: ... has made one download of bytes whose md5 is
\* file_info.md5, a second call with the same file_info makes no download
\* and yields the same page names.
C10_SecondCallNoDownloadIfHashOk ==
    (prevNote.first /\ prevNote.hashOk /\ lastNote.fi = prevNote.fi) =>
        /\ lastNote.nDownload = 0
        /\ lastNote.local = "match"
        /\ lastNote.err \in {"none", "ValueError"}
        /\ lastNote.names = prevNote.names

\* A page image was served from the local copy the call before downloaded.
C10_Witness ==
    /\ prevNote.first
    /\ prevNote.hashOk
    /\ lastNote.fi = prevNote.fi
    /\ lastNote.kind = "png"
    /\ lastNote.err = "none"
    /\ lastNote.nDownload = 0
    /\ lastNote.names = prevNote.names

\* Two get_note_png requests in a row, for the same file_info and page, that
\* both returned an image.
SamePngTwice ==
    /\ lastNote.kind = "png" /\ lastNote.err = "none"
    /\ lastNote'.kind = "png" /\ lastNote'.err = "none"
    /\ lastNote'.fi = lastNote.fi
    /\ lastNote'.page_num = lastNote.page_num

\* C11 as stated: get_note_png called twice with the same file_info and page
\* index returns the same bytes, and the second call renders nothing: it is
\* served from the page image on disk.
C11_PngTwice ==
    [][ SamePngTwice =>
            /\ lastNote'.img = lastNote.img
            /\ lastNote'.nRender = 0 ]_vars

\* C11 amended: ... with the same file_info, whose md5 is that of the bytes
\* the first call served, and page index ...
C11_PngTwiceIfHashOk ==
    [][ (SamePngTwice /\ Md5(lastNote.contents) = lastNote.fi.md5) =>
            /\ lastNote'.img = lastNote.img
            /\ lastNote'.nRender = 0
            /\ lastNote'.nDownload = 0
            /\ pngFiles' = pngFiles ]_vars

\* The first request rendered page 1, the second one returned it from disk.
C11_Witness ==
    /\ lastNote.kind = "png" /\ lastNote.err = "none"
    /\ lastNote.page_num = 1
    /\ lastNote.nRender = 0
    /\ lastNote.local = "match"
    /\ prevNote.rendered
    /\ prevNote.fi = lastNote.fi
    /\ prevNote.page_num = lastNote.page_num
    /\ prevNote.img = lastNote.img

\* C12: get_note_png for a page number below 0 or not below the number of
\* pages of the notebook fails with the error of an invalid page number; it
\* returns no bytes, renders nothing and writes no page image.
C12_PageBounds ==
    [][ (lastNote'.kind = "png" /\ lastNote'.contents # <<>>
            /\ (lastNote'.page_num < 0
                   \/ lastNote'.page_num >= Len(lastNote'.names))) =>
            /\ lastNote'.err = "ValueError"
            /\ lastNote'.img = NoImage
            /\ lastNote'.nRender = 0
            /\ pngFiles' \subseteq pngFiles ]_vars

\* Page 1 was asked of the one-page document, read from its local copy.
C12_Witness ==
    /\ lastNote.kind = "png"
    /\ lastNote.contents = DocB
    /\ lastNote.local = "match"
    /\ lastNote.page_num = 1
    /\ lastNote.page_num >= Len(lastNote.names)
    /\ lastNote.err = "ValueError"
    /\ lastNote.img = NoImage

\* C13: when the download of _get_notebook_file fails with Unauthorized,
\* reauth_cb is called once, there is no second download call, the error is
\* raised to the caller and no bytes are written to the local path.
C13_DownloadUnauthorized ==
    [][ (lastNote'.kind # "none" /\ lastNote'.err = "Unauthorized") =>
            /\ lastNote'.nReauth = 1
            /\ lastNote'.nDownload = 1
            /\ lastNote'.got = None
            /\ lastNote'.contents = <<>>
            /\ lastNote'.img = NoImage
            /\ \A path \in LocalPaths :
                  noteFiles'[path] \in {None, noteFiles[path]}
            /\ pngFiles' = pngFiles
            /\ reauthFlows' = 1 ]_vars

\* The download that was to replace a stale local copy was refused.
C13_Witness ==
    /\ lastNote.kind = "png"
    /\ lastNote.err = "Unauthorized"
    /\ lastNote.local = "stale"
    /\ lastNote.nReauth = 1
    /\ noteFiles[NotePath] = None
    /\ reauthFlows = 1

\* The last characters of the name are not ".note".
NotADocumentName(name) ==
    \/ Len(name) < 5
    \/ <<name[Len(name) - 4], name[Len(name) - 3], name[Len(name) - 2],
         name[Len(name) - 1], name[Len(name)]>>
            # <<".", "n", "o", "t", "e">>

\* C28: get_note_page_names and get_note_png for a file_info whose name does
\* not end in ".note" raise ValueError, and nothing was done by then: no
\* local file was looked at, read or deleted, no image was read, written or
\* rendered, no download was issued and reauth_cb was not called.
C28_NonNoteName ==
    [][ (lastNote'.kind # "none" /\ NotADocumentName(lastNote'.fi.name)) =>
            /\ lastNote'.err = "ValueError"
            /\ lastNote'.local = "none"
            /\ lastNote'.got = None
            /\ lastNote'.nDownload = 0
            /\ lastNote'.nReauth = 0
            /\ lastNote'.nRender = 0
            /\ lastNote'.names = <<>>
            /\ lastNote'.img = NoImage
            /\ noteFiles' = noteFiles
            /\ pngFiles' = pngFiles
            /\ reauthFlows' = reauthFlows ]_vars

\* An image of a page was asked for a file named G.txt, while the folder
\* holds a note file with images on disk.
C28_Witness ==
    /\ lastNote.kind = "png"
    /\ lastNote.fi.name = TextName
    /\ lastNote.err = "ValueError"
    /\ \E path \in LocalPaths : noteFiles[path] # None
    /\ pngFiles # {}

\* ------------------------------------------------------ listings: claims

\* The entries of a response flagged as folders, and those that are not, in
\* response order.
FlaggedFolders(files) == SelectSeq(files, LAMBDA f : f.is_folder = "Y")

FlaggedFiles(files) == SelectSeq(files, LAMBDA f : f.is_folder # "Y")

\* The FolderInfo or FileInfo an entry of the response is returned as.
InfoOf(file) ==
    IF file.is_folder = "Y" THEN FolderInfoOf(file) ELSE FileInfoOf(file)

\* C14: after a fetch every entry of the response is in the result once, in
\* response order, in folder_children if and only if its is_folder flag is Y
\* and in file_children otherwise, and children maps the id of every entry
\* to that entry.
C14_Partition ==
    (listing.fetched /\ listing.err = "none") =>
        /\ listing.ret.folder_id = listing.folder_id
        /\ listing.ret.folder_children =
              [i \in 1..Len(FlaggedFolders(listing.files)) |->
                  FolderInfoOf(FlaggedFolders(listing.files)[i])]
        /\ listing.ret.file_children =
              [i \in 1..Len(FlaggedFiles(listing.files)) |->
                  FileInfoOf(FlaggedFiles(listing.files)[i])]
        /\ \A i \in 1..Len(listing.files) :
              children_get(listing.ret, listing.files[i].id) =
                  InfoOf(listing.files[i])

\* The response holds a file and a folder with the same id.
IdCollision(files) ==
    \E i, j \in 1..Len(files) :
        /\ files[i].id = files[j].id
        /\ files[i].is_folder = "Y"
        /\ files[j].is_folder # "Y"

\* C15: a listing with a file and a folder of the same id makes
\* get_folder_contents fail: no result is returned in whose children one of
\* the two has replaced the other.
C15_CollisionIsError ==
    (listing.fetched /\ IdCollision(listing.files)) => listing.err # "none"

\* --------------------------------------------------- identifiers: claims

\* C16: an identifier (any config_entry_id, any type, any path of at least
\* one id) serialized with "/" or ":" and parsed back with the same
\* separator is the identifier again.
C16_EncodeDecode ==
    codec.op = "encode" =>
        /\ codec.out.err = "none"
        /\ codec.out.ident = codec.ident

\* C17: a string the parser accepts, parsed and serialized again with the
\* same separator, is the string again.
C17_DecodeEncode ==
    (codec.op = "decode" /\ codec.out.err = "none") =>
        codec.back = codec.text

\* Fields that are no integer however it is written.
NonIntegerFields == {<<"x">>, <<>>}

\* The string parsed has fewer than 3 fields, a second field that is no type
\* tag, or a path segment that is no integer.
Unparsable(fields) ==
    \/ Len(fields) < 3
    \/ fields[2] \notin {<<"f">>, <<"n">>, <<"p">>}
    \/ \E i \in 3..Len(fields) : fields[i] \in NonIntegerFields

\* C18: the parser fails, and returns no identifier, for a string of fewer
\* than 3 separated fields, for a type tag other than f, n and p, and for a
\* path segment that is no integer; browsing such a string is the browse
\* error "Could not parse identifier".
C18_DecodeRejects ==
    (codec.op = "decode" /\ Unparsable(codec.fields)) =>
        /\ codec.out.err = "ValueError"
        /\ codec.out.ident = NoIdentifier
        /\ codec.separator = "/" =>
              codec.browse = "BrowseError: Could not parse identifier"

\* The string "e/q/0", of an unknown type tag, was browsed.
C18_Witness ==
    /\ codec.op = "decode"
    /\ codec.separator = "/"
    /\ codec.text = <<"e", "/", "q", "/", "0">>
    /\ codec.out.err = "ValueError"
    /\ codec.browse = "BrowseError: Could not parse identifier"

\* C19: the parser fails for a NOTE_FILE identifier whose path has not 2
\* ids and for a NOTE_PAGE identifier whose path has not 3.
C19_DecodeArity ==
    (codec.op = "decode" /\ ~Unparsable(codec.fields)
        /\ \/ codec.fields[2] = NOTE_FILE /\ Len(codec.fields) - 2 # 2
           \/ codec.fields[2] = NOTE_PAGE /\ Len(codec.fields) - 2 # 3) =>
        codec.out.err # "none"

\* The path of the identifier read is too short for its parent folder id.
ParentMissing(x) ==
    IF x.id_type = NOTE_PAGE THEN Len(x.media_id_path) < 3
    ELSE Len(x.media_id_path) < 2

\* C20: parent_folder_id is the second-to-last id of the path of a FOLDER or
\* NOTE_FILE identifier and the third-to-last of a NOTE_PAGE identifier;
\* parent_folder_id, note_file_id and page_id raise, and return neither None
\* nor another id, when the path is too short for them.
C20_Accessors ==
    codec.op = "read" =>
        LET x == codec.ident
            n == Len(x.media_id_path)
        IN  /\ ~ParentMissing(x) =>
                  codec.parent =
                      Returned(x.media_id_path[IF x.id_type = NOTE_PAGE
                                               THEN n - 2 ELSE n - 1])
            /\ ParentMissing(x) => codec.parent = Raised
            /\ (x.id_type = NOTE_PAGE /\ n < 2) => codec.note = Raised
            /\ (x.id_type = NOTE_PAGE /\ n < 3) => codec.page = Raised

\* ------------------------------------------------------ notebooks: claims

\* The file name without its ".note".
WithoutNoteSuffix(name) == SubSeq(name, 1, Len(name) - Len(NOTE_SUFFIX))

\* i written with at least 3 digits, for i below 1000.
ThreeDigits(i) ==
    <<DigitChars[(i \div 100) + 1], DigitChars[((i \div 10) % 10) + 1],
      DigitChars[(i % 10) + 1]>>

\* C27: page_names has one entry per page of the document, in page order,
\* entry i being "{stem}-{i in 3 digits}-{page id of page i}" with stem the
\* file name without its suffix; the page names of a notebook are pairwise
\* distinct, and distinct page numbers have distinct image paths.
C27_PageNames ==
    pages.built =>
        /\ Len(pages.names) = Len(PageIds(pages.contents))
        /\ \A i \in 1..Len(pages.names) :
              pages.names[i] =
                  WithoutNoteSuffix(pages.name) \o <<"-">>
                      \o ThreeDigits(i - 1) \o <<"-">>
                      \o PageIds(pages.contents)[i]
        /\ \A i, j \in 1..Len(pages.names) :
              i # j => /\ pages.names[i] # pages.names[j]
                       /\ pages.paths[i] # pages.paths[j]

\* ---------------------------------------------------- content view: claims

\* The fields of the identifier in the URL.
ViewFields == Split(viewed.item, ":", -1)

\* The URL names a page of an account as the identifier format has it:
\* account, the type tag p, and the three integers parent folder id, file id
\* and page index.
WellFormedPage ==
    /\ ~Unparsable(ViewFields)
    /\ ViewFields[2] = <<"p">>
    /\ Len(ViewFields) = 5

\* The URL does not follow the identifier format: it does not parse, or its
\* path has not the length its type calls for.
MalformedItem ==
    \/ Unparsable(ViewFields)
    \/ ViewFields[2] = <<"n">> /\ Len(ViewFields) # 4
    \/ ViewFields[2] = <<"p">> /\ Len(ViewFields) # 5

\* C21: the view answers 400, having asked nothing of the store (no folder
\* contents, no download, no rendering), when the identifier is malformed,
\* when its type is not NOTE_PAGE, and when its account is not configured.
C21_BadRequest ==
    (/\ viewed.called
     /\ \/ MalformedItem
        \/ ViewFields[2] # <<"p">>
        \/ ViewFields[1] # <<"e">>) =>
        /\ viewed.status = 400
        /\ viewed.asked = <<>>
        /\ viewed.nList = 0
        /\ viewed.nDownload = 0
        /\ viewed.nRender = 0

\* The ids a well-formed page identifier names.
ViewParent == ParseInt(ViewFields[3]).value

ViewFile == ParseInt(ViewFields[4]).value

ViewPage == ParseInt(ViewFields[5]).value

\* The request named a page of the configured account and the contents of
\* the parent folder are at hand.
PageOfListedFolder ==
    /\ viewed.called
    /\ WellFormedPage
    /\ ViewFields[1] = <<"e">>
    /\ mediaCache[ViewParent] # NoEntry

\* No child of the parent folder has the file id named.
FileAbsent ==
    LET fc == mediaCache[ViewParent] IN
    /\ \A i \in 1..Len(fc.file_children) :
          fc.file_children[i].file_id # ViewFile
    /\ \A i \in 1..Len(fc.folder_children) :
          fc.folder_children[i].folder_id # ViewFile

\* The file named is a file of the parent folder, its notebook was obtained
\* (it is on disk), and the page index named is none of its pages.
PageOutside ==
    LET fc   == mediaCache[ViewParent]
        path == <<ViewParent, NoteName>>
    IN  /\ \E i \in 1..Len(fc.file_children) :
              /\ fc.file_children[i].file_id = ViewFile
              /\ fc.file_children[i].name = NoteName
        /\ \A i \in 1..Len(fc.folder_children) :
              fc.folder_children[i].folder_id # ViewFile
        /\ viewed.err \in {"none", "ValueError"}
        /\ noteFiles[path] # None
        /\ ViewPage \notin 0..(Len(PageIds(noteFiles[path][1])) - 1)

\* C22 as stated: the view answers 404 when a well-formed NOTE_PAGE
\* identifier of a configured account names a note file that is not in the
\* contents of its parent folder, or a page index outside the pages of the
\* note.
C22_NotFound ==
    (PageOfListedFolder /\ (FileAbsent \/ PageOutside)) =>
        viewed.status = 404

\* C22, amended: for a well-formed NOTE_PAGE identifier of a configured
\* account the view answers 400, with no download and no rendering, when no
\* child of the parent folder has the file id named, and the request ends
\* in 500 (a ValueError that is not caught) with no image when the page
\* index is outside the pages of the note.
C22_AbsentIsBadRequest ==
    /\ (PageOfListedFolder /\ FileAbsent) =>
          /\ viewed.status = 400
          /\ viewed.nDownload = 0
          /\ viewed.nRender = 0
          /\ viewed.body = NoImage
    /\ (PageOfListedFolder /\ PageOutside) =>
          /\ viewed.status = 500
          /\ viewed.err = "ValueError"
          /\ viewed.nRender = 0
          /\ viewed.body = NoImage

\* Page 0 of the file 9 was asked for; the root was listed and has no such
\* child.
C22_Witness ==
    /\ viewed.item = <<"e", ":", "p", ":", "0", ":", "9", ":", "0">>
    /\ viewed.asked = <<0>>
    /\ viewed.nList = 1
    /\ mediaCache[0] # NoEntry
    /\ viewed.status = 400

\* ---------------------------------------------------- media source: claims

\* The fields of an identifier of the browse interface, and the ids of its
\* path.
Fields(identifier) == Split(identifier, "/", -1)

PathOf(identifier) ==
    [i \in 1..(Len(Fields(identifier)) - 2) |->
        ParseInt(Fields(identifier)[i + 2]).value]

TagOf(identifier) == Fields(identifier)[2]

\* The request browsed an identifier of the configured account with the
\* type tag `tag`.
Browsed(b, tag) ==
    /\ b.called
    /\ ~Unparsable(Fields(b.item))
    /\ Fields(b.item)[1] = <<"e">>
    /\ TagOf(b.item) = tag

\* The id browsed and the id of its parent folder.
BrowsedMedia(b) == PathOf(b.item)[Len(PathOf(b.item))]

BrowsedParent(b) == PathOf(b.item)[Len(PathOf(b.item)) - 1]

\* The children of the nodes returned that stand for folders, in order.
FolderChildren(node) ==
    SelectSeq(node.children, LAMBDA c : TagOf(c.identifier) = <<"f">>)

FileChildren(node) ==
    SelectSeq(node.children, LAMBDA c : TagOf(c.identifier) = <<"n">>)

\* The children a folder browsed has: a node per entry of its contents,
\* with the type tag of the entry's kind, the path [folder browsed, id of
\* the entry] and the name of the entry.
FolderChildrenEmitted(b, cache) ==
    LET fc == cache[BrowsedMedia(b)] IN
    /\ \A i \in 1..Len(b.node.children) :
          /\ of(b.node.children[i].identifier, "/").err = "none"
          /\ TagOf(b.node.children[i].identifier) \in {<<"f">>, <<"n">>}
    /\ Len(b.node.children)
          = Len(fc.file_children) + Len(fc.folder_children)
    /\ Len(FileChildren(b.node)) = Len(fc.file_children)
    /\ \A i \in 1..Len(fc.file_children) :
          /\ PathOf(FileChildren(b.node)[i].identifier)
                = <<BrowsedMedia(b), fc.file_children[i].file_id>>
          /\ FileChildren(b.node)[i].title = fc.file_children[i].name
    /\ \A i \in 1..Len(fc.folder_children) :
          /\ PathOf(FolderChildren(b.node)[i].identifier)
                = <<BrowsedMedia(b), fc.folder_children[i].folder_id>>
          /\ FolderChildren(b.node)[i].title = fc.folder_children[i].name

\* The children a note file browsed has: a node per page, in page order,
\* with the type tag p and the path [parent, file, page index].
PageChildrenEmitted(b) ==
    \A i \in 1..Len(b.node.children) :
        /\ of(b.node.children[i].identifier, "/").err = "none"
        /\ TagOf(b.node.children[i].identifier) = <<"p">>
        /\ PathOf(b.node.children[i].identifier)
              = <<BrowsedParent(b), BrowsedMedia(b), i - 1>>

\* C23: every child identifier returned by browsing a folder or a note file
\* parses, has the type tag of the child's kind, names the node browsed as
\* its parent and ends with the child's id (the page indexes 0 .. n-1 for
\* pages); and browsing a folder or file identifier so returned, the store
\* answering, gives a node with that identifier and the child's name.
C23_Children ==
    [][ /\ (Browsed(browsed', <<"f">>) /\ browsed'.err = "none") =>
              FolderChildrenEmitted(browsed', mediaCache')
        /\ (Browsed(browsed', <<"n">>) /\ browsed'.err = "none") =>
              PageChildrenEmitted(browsed')
        /\ \A i \in 1..Len(browsed.node.children) :
              (/\ browsed.item # <<>>
               /\ browsed'.item = browsed.node.children[i].identifier
               /\ browsed'.err \notin {"Unauthorized", "ApiError"}) =>
                  /\ browsed'.err = "none"
                  /\ browsed'.node.identifier = browsed'.item
                  /\ browsed'.node.title = browsed.node.children[i].title
      ]_vars

\* The folder a remote item is in, and the chain of folders from the root
\* down to a folder.
RemoteParent(id) ==
    (CHOOSE f \in {FileDocs, FileNote, FileSub} : f.id = id).directory_id

RECURSIVE AncestorChain(_)
AncestorChain(id) ==
    IF id = 0 THEN <<0>> ELSE AncestorChain(RemoteParent(id)) \o <<id>>

\* C24 as stated: the path of every folder identifier returned by browsing
\* is the chain of folder ids from the root 0 down to the folder, so that a
\* folder k levels below the root has a path of k + 1 ids.
C24_AncestorChain ==
    (browsed.called /\ browsed.err = "none") =>
        \A i \in 1..Len(FolderChildren(browsed.node)) :
            LET path == PathOf(FolderChildren(browsed.node)[i].identifier)
            IN  path = AncestorChain(path[Len(path)])

\* C24, amended: the path of a folder identifier returned by browsing a
\* folder is [id of the folder browsed, id of the folder], 2 ids at every
\* depth, and the path of an account root in the list of accounts is [0].
C24_FolderPathPair ==
    /\ (Browsed(browsed, <<"f">>) /\ browsed.err = "none") =>
          LET fc == mediaCache[BrowsedMedia(browsed)] IN
          /\ Len(FolderChildren(browsed.node)) = Len(fc.folder_children)
          /\ \A i \in 1..Len(fc.folder_children) :
                PathOf(FolderChildren(browsed.node)[i].identifier)
                    = <<BrowsedMedia(browsed), fc.folder_children[i].folder_id>>
    /\ (browsed.called /\ browsed.item = <<>>) =>
          /\ Len(browsed.node.children) = 1
          /\ PathOf(browsed.node.children[1].identifier) = <<0>>

\* Folder 1 of the root was browsed and returned its folder 3.
C24_Witness ==
    /\ browsed.item = <<"e", "/", "f", "/", "0", "/", "1">>
    /\ browsed.err = "none"
    /\ Len(browsed.node.children) = 1
    /\ browsed.node.children[1].identifier
          = <<"e", "/", "f", "/", "1", "/", "3">>

\* C25: browsing the identifier of a page of a note file, as browsing the
\* note file is to return it, gives a node with that identifier, a title
\* and no children.
C25_BrowsePage ==
    (/\ Browsed(browsed, <<"p">>)
     /\ Len(PathOf(browsed.item)) = 3
     /\ PathOf(browsed.item)[1] = 0
     /\ PathOf(browsed.item)[2] = FileNote.id
     /\ PathOf(browsed.item)[3] \in 0..(Len(PageIds(DocA)) - 1)) =>
        /\ browsed.err = "none"
        /\ browsed.node.identifier = browsed.item
        /\ browsed.node.title # <<>>
        /\ browsed.node.children = <<>>

\* What the contents of a folder have under an id.
KindIn(fc, id) ==
    IF \E i \in 1..Len(fc.folder_children) :
           fc.folder_children[i].folder_id = id
    THEN "folder"
    ELSE IF \E i \in 1..Len(fc.file_children) :
                fc.file_children[i].file_id = id
    THEN "file"
    ELSE "absent"

\* The request browsed a note file or a folder below the root, the contents
\* of the parent folder are at hand, and they have nothing, or an item of
\* the other kind, under the id browsed.
WrongKindBrowsed(b, cache) ==
    /\ \/ Browsed(b, <<"n">>)
       \/ Browsed(b, <<"f">>)
    /\ Len(PathOf(b.item)) >= 2
    /\ cache[BrowsedParent(b)] # NoEntry
    /\ KindIn(cache[BrowsedParent(b)], BrowsedMedia(b))
          \in {"absent",
               IF TagOf(b.item) = <<"n">> THEN "folder" ELSE "file"}

\* C26: browsing a NOTE_FILE identifier whose id is not in the contents of
\* the parent folder or is a folder there, and a FOLDER identifier below the
\* root whose id is not there or is a file there, raises BrowseError; only
\* the parent folder was asked of the store, and nothing on disk changed.
C26_KindChecked ==
    [][ WrongKindBrowsed(browsed', mediaCache') =>
            /\ browsed'.err = "BrowseError"
            /\ browsed'.node = NoNode
            /\ browsed'.asked = <<BrowsedParent(browsed')>>
            /\ browsed'.nList <= 1
            /\ noteFiles' = noteFiles
            /\ pngFiles' = pngFiles ]_vars

\* The note file 2 of the root was browsed as a folder.
C26_Witness ==
    /\ browsed.item = <<"e", "/", "f", "/", "0", "/", "2">>
    /\ KindIn(mediaCache[0], 2) = "file"
    /\ browsed.err = "BrowseError"
    /\ browsed.asked = <<0>>

\* --------------------------------------------------- config flow: claims

\* The number of reauth flows in progress for an entry.
RECURSIVE CopiesOf(_, _)
CopiesOf(fs, set) ==
    IF set = {} THEN 0
    ELSE LET flow == CHOOSE f \in set : TRUE
         IN  CopiesIn(flow, fs) + CopiesOf(fs, set \ {flow})

ReauthFlowsOf(fs, entry_id) ==
    {flow \in BagToSet(fs) :
        flow.source = SOURCE_REAUTH /\ flow.entry_id = entry_id}

ReauthFlowCount(fs, entry_id) == CopiesOf(fs, ReauthFlowsOf(fs, entry_id))

\* The entries other than one are left as they were.
OtherEntriesKept(entry_id) ==
    /\ Len(configEntries') = Len(configEntries)
    /\ \A i \in 1..Len(configEntries) :
          i # entry_id => configEntries'[i] = configEntries[i]

LoggedIn(step) == step.kind \in {"user", "sms"} /\ step.logged_in

\* A reauth flow has logged in with a unique id that is not its entry's.
ReauthOfAnother(step) ==
    /\ LoggedIn(step)
    /\ step.source = SOURCE_REAUTH
    /\ step.username # configEntries[step.entry_id].unique_id

\* A user flow has logged in with the unique id of a configured entry.
UserOfConfigured(step) ==
    /\ LoggedIn(step)
    /\ step.source = SOURCE_USER
    /\ \E i \in 1..Len(configEntries) :
          configEntries[i].unique_id = step.username

\* No two entries have the same unique id.
OneEntryPerUniqueId(entries) ==
    \A i, j \in 1..Len(entries) :
        entries[i].unique_id = entries[j].unique_id => i = j

\* A flow in progress holds the unique id in its context.
HeldInProgress(unique_id) ==
    \E flow \in BagToSet(flows) : flow.unique_id = unique_id

FlowsAt(fs, step_id, username) ==
    {flow \in BagToSet(fs) :
        flow.step_id = step_id /\ flow.username = username}

\* C31: in the user step, a login that reports that SMS verification is
\* required, followed by a request of an SMS code that succeeds, shows the
\* form sms without errors and keeps the username typed, and creates no
\* entry; in the sms step of a flow started by the user, a code the SMS
\* login accepts (get_capacity succeeding, the username neither configured
\* nor held by a flow in progress) creates one entry, whose options carry the
\* token returned by the SMS login and the username kept from the user step;
\* a login, a request of a code or a code that fails shows the form of the
\* current step again with an error and creates no entry.
C31_SmsFlow ==
    [][ /\ ( /\ lastFlow'.kind = "user"
             /\ lastFlow'.login = "sms" ) =>
            /\ configEntries' = configEntries
            /\ lastFlow'.sms_request = "ok" =>
                  /\ lastFlow'.result = async_show_form("sms", "")
                  /\ FlowsAt(flows', "sms", lastFlow'.username) # {}
            /\ lastFlow'.sms_request # "ok" =>
                  lastFlow'.result = async_show_form("user", "api_error")
        /\ ( /\ lastFlow'.kind = "user"
             /\ lastFlow'.login # "sms"
             /\ ~lastFlow'.logged_in ) =>
            /\ configEntries' = configEntries
            /\ lastFlow'.result = async_show_form("user", "api_error")
            /\ FlowsAt(flows', "user", lastFlow'.username) # {}
        /\ ( /\ lastFlow'.kind = "sms"
             /\ ~lastFlow'.logged_in ) =>
            /\ configEntries' = configEntries
            /\ lastFlow'.result = async_show_form("sms", "invalid_auth")
            /\ FlowsAt(flows', "sms", lastFlow'.username) # {}
        /\ ( /\ lastFlow'.kind = "sms"
             /\ lastFlow'.source = SOURCE_USER
             /\ lastFlow'.logged_in
             /\ FlowsAt(flows, "sms", lastFlow'.username) # {}
             /\ ~UserOfConfigured(lastFlow')
             /\ ~HeldInProgress(lastFlow'.username) ) =>
            /\ lastFlow'.result = async_create_entry
            /\ Len(configEntries') = Len(configEntries) + 1
            /\ SubSeq(configEntries', 1, Len(configEntries)) = configEntries
            /\ LET entry == configEntries'[Len(configEntries')]
               IN  /\ entry.options.access_token = lastFlow'.token
                   /\ entry.options.username = lastFlow'.username
                   /\ entry.unique_id = lastFlow'.username ]_vars

\* A second entry has just been created by the sms step of a flow started by
\* the user.
C31_Witness ==
    /\ lastFlow.kind = "sms"
    /\ lastFlow.source = SOURCE_USER
    /\ lastFlow.result = async_create_entry
    /\ Len(configEntries) = 2
    /\ configEntries[2].options.access_token = lastFlow.token
    /\ configEntries[2].options.username = lastFlow.username

\* ------------------------------------- concurrent requests: claims

\* Both requests have returned, and they ran at the same time.
BothReturned ==
    /\ \A i \in Requests : requests[i].pc = "done"
    /\ raceInfo.overlap

\* Both requests found a miss.
BothMissed == \A i \in Requests : requests[i].missed

\* The contents a miss can build for a folder up to now.
Snapshots(folder_id) ==
    {NewFolderContents(folder_id, files, t) : files \in RaceLists,
                                              t \in 0..now}

\* The entry of a folder in the file of the Store.
Cached(folder_id) == MetadataStore_get(storeData.file, folder_id)

\* C32: two requests for the same folder that run at the same time and both
\* miss both return the contents built from a listing, make at most two
\* listing calls between them, and leave as the cached entry of the folder
\* the contents one of them returned.
C32_SameFolderRace ==
    (BothReturned /\ BothMissed
       /\ requests[1].folder_id = requests[2].folder_id)
    => /\ \A i \in Requests :
            requests[i].ret \in Snapshots(requests[i].folder_id)
       /\ requests[1].nList + requests[2].nList <= 2
       /\ storeData.writer = 0
       /\ Cached(requests[1].folder_id)
            \in {requests[1].ret, requests[2].ret}

\* Both requests missed for one folder and returned different contents; the
\* cached entry is the newer one.
C32_Witness ==
    /\ BothReturned /\ BothMissed
    /\ requests[1].folder_id = requests[2].folder_id
    /\ requests[1].ret.cache_ts < requests[2].ret.cache_ts
    /\ requests[1].ret.folder_children # requests[2].ret.folder_children
    /\ Cached(requests[1].folder_id) = requests[2].ret

\* Both requests missed, each for its own folder.
TwoFolderRace ==
    /\ BothReturned /\ BothMissed
    /\ requests[1].folder_id # requests[2].folder_id

\* C33 as stated: after two requests for two different folders that run at
\* the same time and both miss, the cache holds the entry of each.
C33_BothEntriesKept ==
    TwoFolderRace
    => \A i \in Requests : Cached(requests[i].folder_id) = requests[i].ret

\* C33: after two requests for two different folders that run at the same
\* time and both miss, the cache holds the data saved last, with the entry
\* of the request that saved last.
C33_LastSaveKept ==
    TwoFolderRace
    => /\ storeData.file = raceInfo.saved.data
       /\ raceInfo.saved.by \in Requests
       /\ Cached(raceInfo.saved.folder_id)
            = requests[raceInfo.saved.by].ret
       /\ raceInfo.saved.folder_id
            = requests[raceInfo.saved.by].folder_id

\* Two requests missed for two folders and the entry of the one that saved
\* first is gone.
C33_Witness ==
    /\ TwoFolderRace
    /\ raceInfo.saved.by = 2
    /\ Cached(requests[2].folder_id) = requests[2].ret
    /\ Cached(requests[1].folder_id) = NoEntry

\* The timestamp of the cached entry of a folder does not go down in a step.
TimestampKept(folder_id) ==
    LET before == Cached(folder_id)
        after  == MetadataStore_get(storeData'.file, folder_id)
    IN  (before # NoEntry /\ after # NoEntry)
        => after.cache_ts >= before.cache_ts

\* C39 as stated: the cache_timestamp of the cached entry of a folder never
\* decreases, whatever the requests and however they interleave.
C39_TimestampNeverDecreases ==
    [][\A folder_id \in FolderIds : TimestampKept(folder_id)]_vars

\* C39: the cache_timestamp of the cached entry of a folder never decreases
\* when the cache is written with the data saved by a request for that
\* folder (with two requests the one that holds the write lock writes the
\* data it saved).
C39_OwnWriteKeepsTimestamp ==
    [][\A folder_id \in FolderIds :
         (/\ storeData.writer # 0
          /\ requests[storeData.writer].folder_id = folder_id
          /\ storeData'.file # storeData.file)
         => TimestampKept(folder_id)]_vars

\* A request has replaced the expired entry that an earlier request for the
\* same folder had written.
C39_Witness ==
    /\ \A i \in Requests : requests[i].pc = "done" /\ requests[i].missed
    /\ requests[1].folder_id = requests[2].folder_id
    /\ requests[1].ret.cache_ts = 0
    /\ is_expired(requests[1].ret, requests[2].ret.cache_ts)
    /\ Cached(requests[2].folder_id) = requests[2].ret
    /\ ~raceInfo.overlap

\* ------------------------------------------ metadata store: claims

\* C36: the metadata store is a plain map by folder id: a lookup returns the
\* contents last set for the folder, whatever their age, and nothing when
\* none was set; a set replaces the entry of the folder of the contents and
\* no other.
C36_PlainKeyValue ==
    [][/\ metaLog'.got.folder_id # -1
          => metaLog'.got.ret = metaLog'.lastSet[metaLog'.got.folder_id]
       /\ \A folder_id \in FolderIds :
            metaLog'.lastSet[folder_id] = metaLog.lastSet[folder_id]
            => MetadataStore_get(storeData'.file, folder_id)
                 = Cached(folder_id)]_vars

\* A lookup has returned contents set for a folder that are older than the
\* lifetime of the cache, with contents set for the other folder since.
C36_Witness ==
    /\ metaLog.got.folder_id = 0
    /\ metaLog.got.ret # NoEntry
    /\ metaLog.got.ret = metaLog.lastSet[0]
    /\ is_expired(metaLog.got.ret, now)
    /\ metaLog.lastSet[1] # NoEntry
    /\ metaLog.lastSet[1].cache_ts > metaLog.lastSet[0].cache_ts

\* ------------------------------------- concurrent note requests: claims

\* The two requests ran at the same time, for the same file of the listing.
SameFileRace ==
    /\ \A i \in Requests : noteTasks[i].overlap /\ noteTasks[i].pc # "idle"
    /\ noteTasks[1].md5 = noteTasks[2].md5

\* The local copy was absent or stale when each request started.
NoLocalMatch == \A i \in Requests : noteTasks[i].local \in {"absent", "stale"}

\* The request failed before _get_notebook_file returned.
NotebookFailed(i) == noteTasks[i].pc = "done" /\ ~noteTasks[i].notebook

\* C34: of two requests for the same file that run at the same time, with
\* the local copy absent or stale and the downloads succeeding, neither
\* fails in _get_notebook_file, and once both have their notebook the local
\* file holds the bytes one of them downloaded.
C34_BothGetNotebook ==
    (SameFileRace /\ NoLocalMatch)
    => /\ \A i \in Requests : ~NotebookFailed(i)
       /\ (\A i \in Requests : noteTasks[i].notebook)
            => /\ noteDisk.file # NoFile
               /\ \E i \in Requests :
                    noteDisk.file.bytes = noteTasks[i].contents

\* C35: of two requests of get_note_png for the same file and page that run
\* at the same time, neither fails with the ValueError of a page that could
\* not be converted.
C35_NoConversionFailure ==
    SameFileRace => \A i \in Requests : noteTasks[i].err # "ValueError"

\* ------------------------------------------- failed requests: claims

\* The request of this step failed to parse the document or to render the
\* page.
ParseOrRenderFailed ==
    lastNote'.err \in {"MalformedDocument", "ConversionFailed"}

\* The path of the note file of the request of this step.
FailedPath == get_local_file_path(lastNote'.fi)

C38_NeverEmptyResult ==
    \A i \in Requests :
        noteTasks[i].returned => noteTasks[i].img # EmptyBytes

\* ------------------------------------------- pages of a listing: claims

\* The ids of the entries of a sequence.
IdsOf(entries, field) == {entries[k][field] : k \in 1..Len(entries)}

\* C40 as stated: after a miss get_folder_contents returns and caches every
\* entry of the remote folder, however many it holds.
C40_EveryChildListed ==
    paged.fetched
    => /\ paged.err = "none"
       /\ paged.cached = paged.ret
       /\ IdsOf(paged.ret.file_children, "file_id")
            \cup IdsOf(paged.ret.folder_children, "folder_id")
            = IdsOf(paged.children, "id")

====
